---- MODULE Spec2Model ----
(***************************************************************************)
(* Model of the tool-use agent of XRK-AGT's python sub-server              *)
(* (subserver/pyserver/apis/langchain/agent.py): the JSON decision         *)
(* protocol (_extract_json_obj, _validate_decision) and the                *)
(* plan -> act -> bump graph that run_agent drives.                        *)
(*                                                                         *)
(* Python strings are sequences of one-character strings, so that strip,   *)
(* lower, the fence and brace searches, json.loads and json.dumps are      *)
(* computed and not assumed.  JSON values are records tagged by "ty".      *)
(***************************************************************************)
EXTENDS Integers, Sequences, FiniteSets, TLC

(***************************************************************************)
(* Characters and Python str helpers                                       *)
(***************************************************************************)

\* str.strip() and the regex class \s: the whitespace characters of the model
Whitespace == {" ", "\n", "\t", "\r"}

UpperLetters == <<"A","B","C","D","E","F","G","H","I","J","K","L","M",
                  "N","O","P","Q","R","S","T","U","V","W","X","Y","Z">>

LowerLetters == <<"a","b","c","d","e","f","g","h","i","j","k","l","m",
                  "n","o","p","q","r","s","t","u","v","w","x","y","z">>

Digits == <<"0","1","2","3","4","5","6","7","8","9">>

LowerChar(c) ==
    IF \E i \in 1..Len(UpperLetters) : UpperLetters[i] = c
    THEN LowerLetters[CHOOSE i \in 1..Len(UpperLetters) : UpperLetters[i] = c]
    ELSE c

\* str.lower()
Lower(s) == [i \in 1..Len(s) |-> LowerChar(s[i])]

RECURSIVE LStrip(_)
LStrip(s) ==
    IF s # <<>> /\ Head(s) \in Whitespace THEN LStrip(Tail(s)) ELSE s

RECURSIVE RStrip(_)
RStrip(s) ==
    IF s # <<>> /\ s[Len(s)] \in Whitespace
    THEN RStrip(SubSeq(s, 1, Len(s) - 1))
    ELSE s

\* str.strip()
Strip(s) == RStrip(LStrip(s))

\* s.startswith(p) at 1-based offset i
StartsWithAt(s, i, p) ==
    /\ i >= 1
    /\ i + Len(p) - 1 <= Len(s)
    /\ SubSeq(s, i, i + Len(p) - 1) = p

RECURSIVE NatToChars(_)
NatToChars(n) ==
    IF n < 10 THEN <<Digits[n + 1]>>
    ELSE NatToChars(n \div 10) \o <<Digits[(n % 10) + 1]>>

\* str(int)
IntToChars(n) == IF n < 0 THEN <<"-">> \o NatToChars(-n) ELSE NatToChars(n)

IsDigit(c) == \E i \in 1..Len(Digits) : Digits[i] = c

DigitVal(c) == (CHOOSE i \in 1..Len(Digits) : Digits[i] = c) - 1

(***************************************************************************)
(* JSON values as Python holds them after json.loads                       *)
(***************************************************************************)

JStr(s) == [ty |-> "str", s |-> s]

JNum(n) == [ty |-> "num", n |-> n]

JBool(b) == [ty |-> "bool", b |-> b]

\* Python None: JSON null, and what dict.get returns for an absent key
JNull == [ty |-> "null"]

JArr(items) == [ty |-> "arr", items |-> items]

\* a dict: keys in insertion order, vals aligned with keys
JObj(keys, vals) == [ty |-> "obj", keys |-> keys, vals |-> vals]

EmptyDict == JObj(<<>>, <<>>)

\* isinstance(v, dict)
IsDict(v) == v.ty = "obj"

\* isinstance(v, str)
IsStr(v) == v.ty = "str"

HasKey(d, k) == \E i \in 1..Len(d.keys) : d.keys[i] = k

\* dict.get(k): None when the key is absent
Get(d, k) ==
    IF HasKey(d, k)
    THEN d.vals[CHOOSE i \in 1..Len(d.keys) : d.keys[i] = k]
    ELSE JNull

\* d[k] = v: a repeated key keeps its place and takes the last value
DictSet(d, k, v) ==
    IF HasKey(d, k)
    THEN LET i == CHOOSE j \in 1..Len(d.keys) : d.keys[j] = k
         IN  JObj(d.keys, [d.vals EXCEPT ![i] = v])
    ELSE JObj(Append(d.keys, k), Append(d.vals, v))

\* Python truthiness, as used by `x or default`
Truthy(v) ==
    CASE v.ty = "str"  -> v.s # <<>>
      [] v.ty = "num"  -> v.n # 0
      [] v.ty = "bool" -> v.b
      [] v.ty = "null" -> FALSE
      [] v.ty = "arr"  -> v.items # <<>>
      [] v.ty = "obj"  -> v.keys # <<>>

\* x or y
Or(x, y) == IF Truthy(x) THEN x ELSE y

(***************************************************************************)
(* json.dumps(v, ensure_ascii=False): separators ", " and ": "             *)
(***************************************************************************)

EscapeChar(c) ==
    CASE c = "\"" -> <<"\\", "\"">>
      [] c = "\\" -> <<"\\", "\\">>
      [] c = "\n" -> <<"\\", "n">>
      [] c = "\t" -> <<"\\", "t">>
      [] c = "\r" -> <<"\\", "r">>
      [] OTHER    -> <<c>>

RECURSIVE EscapeChars(_)
EscapeChars(s) ==
    IF s = <<>> THEN <<>> ELSE EscapeChar(Head(s)) \o EscapeChars(Tail(s))

DumpsStr(s) == <<"\"">> \o EscapeChars(s) \o <<"\"">>

RECURSIVE Dumps(_)
RECURSIVE DumpsItems(_)
RECURSIVE DumpsMembers(_, _)

DumpsItems(items) ==
    IF items = <<>> THEN <<>>
    ELSE IF Len(items) = 1 THEN Dumps(items[1])
    ELSE Dumps(items[1]) \o <<",", " ">> \o DumpsItems(Tail(items))

DumpsMembers(keys, vals) ==
    IF keys = <<>> THEN <<>>
    ELSE LET one == DumpsStr(keys[1]) \o <<":", " ">> \o Dumps(vals[1])
         IN  IF Len(keys) = 1 THEN one
             ELSE one \o <<",", " ">> \o DumpsMembers(Tail(keys), Tail(vals))

Dumps(v) ==
    CASE v.ty = "str"  -> DumpsStr(v.s)
      [] v.ty = "num"  -> IntToChars(v.n)
      [] v.ty = "bool" -> IF v.b THEN <<"t","r","u","e">> ELSE <<"f","a","l","s","e">>
      [] v.ty = "null" -> <<"n","u","l","l">>
      [] v.ty = "arr"  -> <<"[">> \o DumpsItems(v.items) \o <<"]">>
      [] v.ty = "obj"  -> <<"{">> \o DumpsMembers(v.keys, v.vals) \o <<"}">>

(***************************************************************************)
(* json.loads(text): a recursive-descent parser over the characters.       *)
(* Numbers are integers; a result is [ok, v, pos] with pos the index after *)
(* the value, and ok = FALSE stands for json.JSONDecodeError.              *)
(***************************************************************************)

ParseFail == [ok |-> FALSE, v |-> JNull, pos |-> 0]

ParseOk(v, pos) == [ok |-> TRUE, v |-> v, pos |-> pos]

\* the character at index i, "" past the end
CharAt(s, i) == IF i >= 1 /\ i <= Len(s) THEN s[i] ELSE ""

RECURSIVE SkipWs(_, _)
SkipWs(s, i) ==
    IF CharAt(s, i) \in Whitespace THEN SkipWs(s, i + 1) ELSE i

\* the characters of a string literal whose opening quote precedes index i
RECURSIVE ScanString(_, _, _)
ScanString(s, i, acc) ==
    LET c == CharAt(s, i)
    IN  CASE c = ""   -> ParseFail
          [] c = "\"" -> ParseOk(JStr(acc), i + 1)
          [] c \in {"\n", "\t", "\r"} -> ParseFail
          [] c = "\\" ->
               LET e == CharAt(s, i + 1)
               IN  CASE e = "\"" -> ScanString(s, i + 2, Append(acc, "\""))
                     [] e = "\\" -> ScanString(s, i + 2, Append(acc, "\\"))
                     [] e = "/"  -> ScanString(s, i + 2, Append(acc, "/"))
                     [] e = "n"  -> ScanString(s, i + 2, Append(acc, "\n"))
                     [] e = "t"  -> ScanString(s, i + 2, Append(acc, "\t"))
                     [] e = "r"  -> ScanString(s, i + 2, Append(acc, "\r"))
                     [] OTHER    -> ParseFail
          [] OTHER    -> ScanString(s, i + 1, Append(acc, c))

RECURSIVE ScanDigits(_, _, _)
ScanDigits(s, i, n) ==
    IF IsDigit(CharAt(s, i))
    THEN ScanDigits(s, i + 1, 10 * n + DigitVal(CharAt(s, i)))
    ELSE [n |-> n, pos |-> i]

\* -?(0|[1-9][0-9]*)
ParseNumber(s, i) ==
    LET neg == CharAt(s, i) = "-"
        j   == IF neg THEN i + 1 ELSE i
    IN  IF ~IsDigit(CharAt(s, j)) THEN ParseFail
        ELSE IF CharAt(s, j) = "0" THEN ParseOk(JNum(0), j + 1)
        ELSE LET d == ScanDigits(s, j, 0)
             IN  ParseOk(JNum(IF neg THEN -(d.n) ELSE d.n), d.pos)

RECURSIVE ParseValue(_, _)
RECURSIVE ParseItems(_, _, _)
RECURSIVE ParseMembers(_, _, _)

\* after "[" or ",": a value, then "," or "]"
ParseItems(s, i, acc) ==
    LET r == ParseValue(s, i)
    IN  IF ~r.ok THEN ParseFail
        ELSE LET k == SkipWs(s, r.pos)
                 c == CharAt(s, k)
             IN  CASE c = "," -> ParseItems(s, SkipWs(s, k + 1), Append(acc, r.v))
                   [] c = "]" -> ParseOk(JArr(Append(acc, r.v)), k + 1)
                   [] OTHER   -> ParseFail

\* after "{" or ",": "key" : value, then "," or "}"
ParseMembers(s, i, d) ==
    IF CharAt(s, i) # "\"" THEN ParseFail
    ELSE LET key == ScanString(s, i + 1, <<>>)
         IN  IF ~key.ok THEN ParseFail
             ELSE LET k == SkipWs(s, key.pos)
                  IN  IF CharAt(s, k) # ":" THEN ParseFail
                      ELSE LET r == ParseValue(s, SkipWs(s, k + 1))
                           IN  IF ~r.ok THEN ParseFail
                               ELSE LET m  == SkipWs(s, r.pos)
                                        c  == CharAt(s, m)
                                        d2 == DictSet(d, key.v.s, r.v)
                                    IN  CASE c = "," -> ParseMembers(s, SkipWs(s, m + 1), d2)
                                          [] c = "}" -> ParseOk(d2, m + 1)
                                          [] OTHER   -> ParseFail

ParseValue(s, i) ==
    LET c == CharAt(s, i)
    IN  CASE c = "\"" -> ScanString(s, i + 1, <<>>)
          [] c = "{"  ->
               LET j == SkipWs(s, i + 1)
               IN  IF CharAt(s, j) = "}" THEN ParseOk(EmptyDict, j + 1)
                   ELSE ParseMembers(s, j, EmptyDict)
          [] c = "["  ->
               LET j == SkipWs(s, i + 1)
               IN  IF CharAt(s, j) = "]" THEN ParseOk(JArr(<<>>), j + 1)
                   ELSE ParseItems(s, j, <<>>)
          [] StartsWithAt(s, i, <<"t","r","u","e">>)     -> ParseOk(JBool(TRUE), i + 4)
          [] StartsWithAt(s, i, <<"f","a","l","s","e">>) -> ParseOk(JBool(FALSE), i + 5)
          [] StartsWithAt(s, i, <<"n","u","l","l">>)     -> ParseOk(JNull, i + 4)
          [] c = "-" \/ IsDigit(c) -> ParseNumber(s, i)
          [] OTHER -> ParseFail

\* json.loads: one value between optional whitespace, nothing after it
Loads(text) ==
    LET r == ParseValue(text, SkipWs(text, 1))
    IN  IF r.ok /\ SkipWs(text, r.pos) = Len(text) + 1 THEN r ELSE ParseFail


(***************************************************************************)
(* str(v) and repr(v) of a Python value, as f-strings and str() use them   *)
(***************************************************************************)

ReprChar(c) ==
    CASE c = "'"  -> <<"\\", "'">>
      [] c = "\\" -> <<"\\", "\\">>
      [] c = "\n" -> <<"\\", "n">>
      [] c = "\t" -> <<"\\", "t">>
      [] c = "\r" -> <<"\\", "r">>
      [] OTHER    -> <<c>>

RECURSIVE ReprChars(_)
ReprChars(s) ==
    IF s = <<>> THEN <<>> ELSE ReprChar(Head(s)) \o ReprChars(Tail(s))

RECURSIVE PyRepr(_)
RECURSIVE ReprItems(_)
RECURSIVE ReprMembers(_, _)

ReprItems(items) ==
    IF items = <<>> THEN <<>>
    ELSE IF Len(items) = 1 THEN PyRepr(items[1])
    ELSE PyRepr(items[1]) \o <<",", " ">> \o ReprItems(Tail(items))

ReprMembers(keys, vals) ==
    IF keys = <<>> THEN <<>>
    ELSE LET one == PyRepr(JStr(keys[1])) \o <<":", " ">> \o PyRepr(vals[1])
         IN  IF Len(keys) = 1 THEN one
             ELSE one \o <<",", " ">> \o ReprMembers(Tail(keys), Tail(vals))

PyRepr(v) ==
    CASE v.ty = "str"  -> <<"'">> \o ReprChars(v.s) \o <<"'">>
      [] v.ty = "num"  -> IntToChars(v.n)
      [] v.ty = "bool" -> IF v.b THEN <<"T","r","u","e">> ELSE <<"F","a","l","s","e">>
      [] v.ty = "null" -> <<"N","o","n","e">>
      [] v.ty = "arr"  -> <<"[">> \o ReprItems(v.items) \o <<"]">>
      [] v.ty = "obj"  -> <<"{">> \o ReprMembers(v.keys, v.vals) \o <<"}">>

\* str(v)
PyStr(v) == IF v.ty = "str" THEN v.s ELSE PyRepr(v)

\* sep.join(parts)
RECURSIVE Join(_, _)
Join(sep, parts) ==
    IF parts = <<>> THEN <<>>
    ELSE IF Len(parts) = 1 THEN parts[1]
    ELSE parts[1] \o sep \o Join(sep, Tail(parts))

(***************************************************************************)
(* _extract_json_obj                                                       *)
(***************************************************************************)

\* the backquote character: a TLA+ string cannot hold it, the atom "bq" stands for it
Backquote == "bq"

\* the fence marker: three backquotes
Fence == <<Backquote, Backquote, Backquote>>

JsonTag == <<"j", "s", "o", "n">>

\* the least e >= i such that \s* and a fence match at e; 0 when there is none
RECURSIVE FenceClose(_, _)
FenceClose(s, e) ==
    IF e > Len(s) + 1 THEN 0
    ELSE IF StartsWithAt(s, SkipWs(s, e), Fence) THEN e
    ELSE FenceClose(s, e + 1)

\* re.search(fence (?:json)? \s* ([\s\S]*?) \s* fence, s, IGNORECASE) tried from
\* index i: [found, group] with group the lazy group 1 of the leftmost match
RECURSIVE FenceSearch(_, _)
FenceSearch(s, i) ==
    IF i > Len(s) THEN [found |-> FALSE, group |-> <<>>]
    ELSE IF ~StartsWithAt(s, i, Fence) THEN FenceSearch(s, i + 1)
    ELSE LET tagged == /\ i + 6 <= Len(s)
                       /\ Lower(SubSeq(s, i + 3, i + 6)) = JsonTag
             p == SkipWs(s, IF tagged THEN i + 7 ELSE i + 3)
             e == FenceClose(s, p)
         IN  IF e = 0 THEN FenceSearch(s, i + 1)
             ELSE [found |-> TRUE, group |-> SubSeq(s, p, e - 1)]

\* index of the first c in s, 0 when absent
FirstIndex(s, c) ==
    IF \E i \in 1..Len(s) : s[i] = c
    THEN CHOOSE i \in 1..Len(s) : s[i] = c /\ \A j \in 1..(i - 1) : s[j] # c
    ELSE 0

\* index of the last c in s, 0 when absent
LastIndex(s, c) ==
    IF \E i \in 1..Len(s) : s[i] = c
    THEN CHOOSE i \in 1..Len(s) : s[i] = c /\ \A j \in (i + 1)..Len(s) : s[j] # c
    ELSE 0

\* re.search(r"(\{[\s\S]*\})", s): the first "{" to the last "}"
BraceSearch(s) ==
    LET a == FirstIndex(s, "{")
        b == LastIndex(s, "}")
    IN  IF a # 0 /\ b > a
        THEN [found |-> TRUE, group |-> SubSeq(s, a, b)]
        ELSE [found |-> FALSE, group |-> <<>>]

\* [ok, obj, err]: ok = FALSE stands for the ValueError / JSONDecodeError raised
ExtractJsonObj(text) ==
    IF text = <<>> THEN [ok |-> FALSE, obj |-> JNull, err |-> "empty model output"]
    ELSE LET t1 == Strip(text)
             m  == FenceSearch(t1, 1)
             t2 == IF m.found THEN Strip(m.group) ELSE t1
             m2 == BraceSearch(t2)
             t3 == IF ~StartsWithAt(t2, 1, <<"{">>) /\ m2.found THEN m2.group ELSE t2
             r  == Loads(t3)
         IN  IF ~r.ok THEN [ok |-> FALSE, obj |-> JNull, err |-> "json decode error"]
             ELSE IF ~IsDict(r.v)
             THEN [ok |-> FALSE, obj |-> JNull, err |-> "model output is not a JSON object"]
             ELSE [ok |-> TRUE, obj |-> r.v, err |-> ""]

(***************************************************************************)
(* _validate_decision                                                      *)
(***************************************************************************)

K_type == <<"t","y","p","e">>

K_final == <<"f","i","n","a","l">>

K_tool == <<"t","o","o","l">>

K_name == <<"n","a","m","e">>

K_args == <<"a","r","g","s">>

\* name in tool_names (a list of the catalog's name values)
InList(name, tool_names) ==
    \E i \in 1..Len(tool_names) : tool_names[i] = JStr(name)

ValidateFail(err) == [ok |-> FALSE, err |-> err, decision |-> [kind |-> "none"]]

\* a faulty variant of ToolNotAllowed: the allow-list test is dropped
ToolNotAllowedNeverRaises(name, tool_names) == FALSE

\* the `tool_names and name not in tool_names` test of the tool branch
ToolNotAllowed(name, tool_names) ==
    tool_names # <<>> /\ ~InList(name, tool_names)

\* a faulty variant of ValidateDecision: a type that is neither "final" nor
\* "tool" is taken for a tool decision
ValidateDecisionDefaultsToTool(obj, tool_names) ==
    LET tv == Or(Get(obj, K_type), JStr(<<>>))
    IN  IF ~IsStr(tv) THEN ValidateFail("type has no strip")
        ELSE LET t == Lower(Strip(tv.s))
             IN  IF t = K_final
                 THEN [ok |-> TRUE, err |-> "",
                       decision |-> [kind |-> "final",
                                     final |-> PyStr(Or(Get(obj, K_final), JStr(<<>>)))]]
                 ELSE LET name == Strip(PyStr(Or(Get(obj, K_name), JStr(<<>>))))
                          args == Or(Get(obj, K_args), EmptyDict)
                      IN  IF ToolNotAllowed(name, tool_names)
                          THEN ValidateFail("tool not allowed")
                          ELSE IF ~IsDict(args)
                          THEN ValidateFail("args must be an object")
                          ELSE [ok |-> TRUE, err |-> "",
                                decision |-> [kind |-> "tool", name |-> name, args |-> args]]

\* [ok, err, decision]: ok = FALSE stands for the exception raised
\* (ValueError, or AttributeError when type is not a string)
ValidateDecision(obj, tool_names) ==
    LET tv == Or(Get(obj, K_type), JStr(<<>>))
    IN  IF ~IsStr(tv) THEN ValidateFail("type has no strip")
        ELSE LET t == Lower(Strip(tv.s))
             IN  IF t = K_final
                 THEN [ok |-> TRUE, err |-> "",
                       decision |-> [kind |-> "final",
                                     final |-> PyStr(Or(Get(obj, K_final), JStr(<<>>)))]]
                 ELSE IF t = K_tool
                 THEN LET name == Strip(PyStr(Or(Get(obj, K_name), JStr(<<>>))))
                          args == Or(Get(obj, K_args), EmptyDict)
                      IN  IF ToolNotAllowed(name, tool_names)
                          THEN ValidateFail("tool not allowed")
                          ELSE IF ~IsDict(args)
                          THEN ValidateFail("args must be an object")
                          ELSE [ok |-> TRUE, err |-> "",
                                decision |-> [kind |-> "tool", name |-> name, args |-> args]]
                 ELSE ValidateFail("type must be 'tool' or 'final'")


(***************************************************************************)
(* _extract_text, _compact_tools, _build_decision_prompt                   *)
(***************************************************************************)

K_role == <<"r","o","l","e">>

K_content == <<"c","o","n","t","e","n","t">>

K_text == <<"t","e","x","t">>

K_user == <<"u","s","e","r">>

K_description == <<"d","e","s","c","r","i","p","t","i","o","n">>

K_inputSchema == <<"i","n","p","u","t","S","c","h","e","m","a">>

K_properties == <<"p","r","o","p","e","r","t","i","e","s">>

\* the content of one message, as line 36-40 coerce it
MessageContent(m) ==
    LET c == Get(m, K_content)
        d == IF IsDict(c)
             THEN Or(Get(c, K_text), Or(Get(c, K_content), JStr(Dumps(c))))
             ELSE c
    IN  IF d.ty = "null" THEN JStr(<<>>) ELSE d

\* one "<role>: <content>" line; the role of a message is a string or absent
MessageLine(m) ==
    Strip(Or(Get(m, K_role), JStr(K_user)).s) \o <<":", " ">> \o PyStr(MessageContent(m))

\* _extract_text(messages): messages is a list of dicts, or None
ExtractText(messages) ==
    LET ms == IF Truthy(messages) THEN messages.items ELSE <<>>
    IN  Strip(Join(<<"\n">>, [i \in 1..Len(ms) |-> MessageLine(ms[i])]))

\* list(schema_props.keys())[:30]
SchemaKeyCap == 30

\* the description of one raw tool, with the schema's keys appended
ToolDescription(t) ==
    LET desc   == Or(Get(t, K_description), JStr(<<>>))
        schema == Or(Get(t, K_inputSchema), EmptyDict)
        props  == IF IsDict(schema) THEN Get(schema, K_properties) ELSE JNull
    IN  IF IsDict(props) /\ Truthy(props)
        THEN LET n    == IF Len(props.keys) < SchemaKeyCap THEN Len(props.keys)
                         ELSE SchemaKeyCap
                 keys == Join(<<",", " ">>, SubSeq(props.keys, 1, n))
             IN  JStr(PyStr(desc) \o <<" ","(","a","r","g","s",":"," ">> \o keys \o <<")">>)
        ELSE desc

\* _compact_tools(raw_tools): the named tools, in order, as {name, description}
RECURSIVE CompactTools(_)
CompactTools(raw) ==
    IF raw = <<>> THEN <<>>
    ELSE LET t    == Head(raw)
             name == Or(Get(t, K_name), JStr(<<>>))
         IN  IF ~Truthy(name) THEN CompactTools(Tail(raw))
             ELSE <<[name |-> name, description |-> ToolDescription(t)]>>
                  \o CompactTools(Tail(raw))

\* tool_names = [t["name"] for t in tools]
ToolNames(tools) == [i \in 1..Len(tools) |-> tools[i].name]

\* a faulty variant of BuildDecisionPrompt: the scratchpad is left out of the prompt
BuildDecisionPromptForgets(question, tools, scratchpad) ==
    [tools_desc |->
         IF tools # <<>>
         THEN Join(<<"\n">>,
                   [i \in 1..Len(tools) |->
                       <<"-", " ">> \o PyStr(tools[i].name) \o <<":", " ">>
                       \o PyStr(tools[i].description)])
         ELSE <<"(none)">>,
     tool_names |->
         IF tools # <<>>
         THEN Join(<<",", " ">>, [i \in 1..Len(tools) |-> PyStr(tools[i].name)])
         ELSE <<>>,
     question   |-> question,
     scratchpad |-> <<>>]

\* _build_decision_prompt: the four substitutions of the fixed template; the
\* atom "(none)" stands for the literal the template shows for an empty catalog
BuildDecisionPrompt(question, tools, scratchpad) ==
    [tools_desc |->
         IF tools # <<>>
         THEN Join(<<"\n">>,
                   [i \in 1..Len(tools) |->
                       <<"-", " ">> \o PyStr(tools[i].name) \o <<":", " ">>
                       \o PyStr(tools[i].description)])
         ELSE <<"(none)">>,
     tool_names |->
         IF tools # <<>>
         THEN Join(<<",", " ">>, [i \in 1..Len(tools) |-> PyStr(tools[i].name)])
         ELSE <<>>,
     question   |-> question,
     scratchpad |-> scratchpad]


(***************************************************************************)
(* Inputs of a run: the conversation, the configuration, and what the      *)
(* three collaborators (tool listing, model, tool call) may answer         *)
(***************************************************************************)

\* the largest max_steps a run is configured with
MaxSteps == 2

\* deps.max_steps
MaxStepsValues == 1..MaxSteps

N_calc_add == <<"c","a","l","c",".","a","d","d">>

N_echo == <<"e","c","h","o">>

N_unknown == <<"u","n","k","n","o","w","n",".","x">>

S_4 == <<"4">>

\* [{"role": "user", "content": "2+2?"}]
MsgsQuestion ==
    JArr(<<JObj(<<K_role, K_content>>, <<JStr(K_user), JStr(<<"2","+","2","?">>)>>)>>)

\* the messages argument of run_agent
Conversations == {JNull, JArr(<<>>), MsgsQuestion}

RawCalcAdd ==
    JObj(<<K_name, K_description, K_inputSchema>>,
         <<JStr(N_calc_add), JStr(<<"a","d","d">>),
           JObj(<<K_properties>>,
                <<JObj(<<<<"a">>, <<"b">>>>, <<EmptyDict, EmptyDict>>)>>)>>)

RawEcho == JObj(<<K_name>>, <<JStr(N_echo)>>)

RawNameless == JObj(<<K_description>>, <<JStr(<<"x">>)>>)

\* what `await deps.get_mcp_tools()` may return
RawToolLists == {<<>>, <<RawNameless>>, <<RawCalcAdd, RawNameless, RawEcho>>}

\* str(e) of the exceptions a collaborator may raise
Errors == {<<"t","i","m","e","o","u","t">>}

\* what `await deps.call_mcp_tool(name, args)` may return
ToolResults ==
    {JObj(<<<<"s","u","c","c","e","s","s">>, <<"d","a","t","a">>>>, <<JBool(TRUE), JNum(4)>>),
     JObj(<<<<"s","u","c","c","e","s","s">>, <<"e","r","r","o","r">>>>,
          <<JBool(FALSE), JStr(<<"n","o">>)>>)}

\* pieces of the texts the model may answer
Q(s) == <<"\"">> \o s \o <<"\"">>

Member(k, v) == Q(k) \o <<":">> \o v

Obj1(m1) == <<"{">> \o m1 \o <<"}">>

Obj2(m1, m2) == <<"{">> \o m1 \o <<",">> \o m2 \o <<"}">>

Obj3(m1, m2, m3) == <<"{">> \o m1 \o <<",">> \o m2 \o <<",">> \o m3 \o <<"}">>

InFence(t) == Fence \o <<"J","s","o","n","\n">> \o t \o <<"\n">> \o Fence

InProse(t) == <<"S","u","r","e",":"," ">> \o t \o <<" ","o","k">>

\* {"type":"final","final":"4"}
T_final == Obj2(Member(K_type, Q(K_final)), Member(K_final, Q(S_4)))

\* {"type":" FINAL ","final":"ok"}
T_final_upper ==
    Obj2(Member(K_type, Q(<<" ","F","I","N","A","L"," ">>)), Member(K_final, Q(<<"o","k">>)))

\* {"type":"final"}
T_final_bare == Obj1(Member(K_type, Q(K_final)))

\* {"type":"tool","name":"calc.add","args":{"a":2,"b":2}}
T_tool_add ==
    Obj3(Member(K_type, Q(K_tool)), Member(K_name, Q(N_calc_add)),
         Member(K_args, Obj2(Member(<<"a">>, <<"2">>), Member(<<"b">>, <<"2">>))))

\* {"type":"Tool","name":" echo "}
T_tool_echo ==
    Obj2(Member(K_type, Q(<<"T","o","o","l">>)), Member(K_name, Q(<<" ">> \o N_echo \o <<" ">>)))

\* {"type":"tool","name":"unknown.x","args":{}}
T_tool_unknown ==
    Obj3(Member(K_type, Q(K_tool)), Member(K_name, Q(N_unknown)), Member(K_args, <<"{","}">>))

\* {"type":"tool","name":"calc.add","args":[1]}
T_tool_args_list ==
    Obj3(Member(K_type, Q(K_tool)), Member(K_name, Q(N_calc_add)),
         Member(K_args, <<"[","1","]">>))

\* {"type":"tool","name":"calc.add","args":[]}
T_tool_args_empty_list ==
    Obj3(Member(K_type, Q(K_tool)), Member(K_name, Q(N_calc_add)),
         Member(K_args, <<"[","]">>))

\* {"type":"think"}
T_type_unknown == Obj1(Member(K_type, Q(<<"t","h","i","n","k">>)))

\* {"type":5}
T_type_number == Obj1(Member(K_type, <<"5">>))

\* {"final":"4"}
T_type_missing == Obj1(Member(K_final, Q(S_4)))

\* plain prose
T_prose == <<"f","o","u","r">>

\* [1]
T_array == <<"[","1","]">>

\* {"type":"final"   (the closing brace is missing)
T_broken == <<"{">> \o Member(K_type, Q(K_final))

\* resp.content of the answers `await llm.ainvoke(...)` may return
ModelTexts ==
    {T_final, InFence(T_final), InProse(T_final), <<" ","\n">> \o T_final \o <<"\n">>,
     T_final_upper, T_final_bare,
     T_tool_add, InFence(T_tool_add), T_tool_echo, T_tool_unknown,
     T_tool_args_list, T_tool_args_empty_list,
     T_type_unknown, T_type_number, T_type_missing,
     T_prose, T_array, T_broken, <<>>, <<" ">>}


(***************************************************************************)
(* run_agent: the state of one run                                         *)
(***************************************************************************)

VARIABLES
    pc,        \* where the run is: "start", "await_tools", "plan", "await_llm",
               \* "act", "await_tool", "bump", "end", "done" (returned), "raised"
    messages,  \* the messages argument
    deps,      \* the AgentDeps fields the run reads: max_steps, use_tools
    question,  \* _extract_text(messages)
    tools,     \* the compacted catalog
    state,     \* the AgentState dict the graph passes from node to node
    prompt,    \* the prompt of the last llm.ainvoke call
    result,    \* the string run_agent returned, once pc = "done"
    answers,   \* observer: the outcomes of the llm.ainvoke calls, in order
    calls,     \* observer: the call_mcp_tool calls made, in order
    outcomes,  \* observer: the outcomes of the call_mcp_tool calls, in order
    listing,   \* observer: the get_mcp_tools call: "none", "pending", "returned", "raised"
    parse,            \* one call of the decision parser: its input and what it gave
    mcp_tools_cache,  \* langchain_service._mcp_tools_cache
    clock,            \* time.time(), in seconds
    pending,          \* the get_mcp_tools calls suspended at their upstream request
    served,           \* observer: the last return of a get_mcp_tools call
    fetches,          \* observer: the number of upstream requests get_mcp_tools issued
    chat,             \* one chat_handler request: its input, position and response
    runs,             \* concurrent run_agent calls, each with its own locals
    toolcall,         \* one call_mcp_tool call: its input, position and outcome
    embed,            \* the vector service's cache and model, and its embed_texts calls
    loader,           \* the vector service's load flags and its load_embedding_model calls
    env,              \* os.environ's proxy variables and the call_main_server calls in flight
    conf              \* one Config object: its data, its cache and the last get

\* the variables of one run_agent call
run_vars == <<pc, messages, deps, question, tools, state, prompt, result,
              answers, calls, outcomes, listing>>

\* the variables outside that run: they are left alone by its steps
outside == <<parse, mcp_tools_cache, clock, pending, served, fetches, chat, runs,
             toolcall, embed, loader, env, conf>>

\* the variables of the tool call, the vector service, the environment and the
\* configuration
rest == <<toolcall, embed, loader, env, conf>>

vars == <<pc, messages, deps, question, tools, state, prompt, result,
          answers, calls, outcomes, listing,
          parse, mcp_tools_cache, clock, pending, served, fetches, chat, runs,
          toolcall, embed, loader, env, conf>>

\* no call of the decision parser is part of the behaviour
NoParse == [wrap |-> "none", x |-> <<>>, names |-> <<>>, done |-> FALSE,
            out |-> [ok |-> FALSE, err |-> "", decision |-> [kind |-> "none"]]]

ParseIdle == parse = NoParse

\* _mcp_tools_cache = {"tools": [], "timestamp": 0}
EmptyCache == [tools |-> JArr(<<>>), timestamp |-> 0, fetched_at |-> 0]

\* no get_mcp_tools call has returned yet
NotServed == [kind |-> "none", tools |-> JArr(<<>>), asked_at |-> 0, at |-> 0,
              fetched_at |-> 0, requested |-> FALSE, seen |-> EmptyCache,
              before |-> EmptyCache, left |-> EmptyCache]

\* no get_mcp_tools call is part of the behaviour
CacheIdle ==
    /\ mcp_tools_cache = EmptyCache
    /\ clock = 0
    /\ pending = <<>>
    /\ served = NotServed
    /\ fetches = 0

NoChat == [pc |-> "none"]

\* no chat_handler request is part of the behaviour
ChatIdle == chat = NoChat

\* no other run_agent call is part of the behaviour
RunsIdle == runs = <<>>

ToolCallIdle == toolcall = [pc |-> "none"]
EmbedIdle == embed = [pc |-> "none"]
LoaderIdle == loader = [pc |-> "none"]
EnvIdle == env = [pc |-> "none"]
ConfIdle == conf = [pc |-> "none"]
RestIdle == ToolCallIdle /\ EmbedIdle /\ LoaderIdle /\ EnvIdle /\ ConfIdle

OutsideIdle == ParseIdle /\ CacheIdle /\ ChatIdle /\ RunsIdle /\ RestIdle

\* the fixed texts of the source, one atom each
MsgLlmFailedHead == "Sorry, the AI call failed: "

MsgLlmFailedTail == ". Please check that the main server is running."

MsgBadFormat == "Sorry, the AI returned a malformed answer."

MsgGraphFailed == "Sorry, the agent failed: "

MsgNoFinalState == "Sorry, the agent returned no valid result."

MsgStepLimit == "The step limit was reached, no more tools can be called."

\* state.get("decision") or {} when no decision was stored
NoDecision == [kind |-> "none"]

\* init: AgentState = {"scratchpad": "", "steps": 0}
InitState ==
    [scratchpad |-> <<>>, steps |-> 0, decision |-> NoDecision,
     last_tool |-> JNull, last_result |-> JNull]

NoPrompt == [tools_desc |-> <<>>, tool_names |-> <<>>, question |-> <<>>, scratchpad |-> <<>>]

Init ==
    /\ pc = "start"
    /\ messages \in Conversations
    /\ deps \in [max_steps : MaxStepsValues, use_tools : BOOLEAN]
    /\ question = <<>>
    /\ tools = <<>>
    /\ state = InitState
    /\ prompt = NoPrompt
    /\ result = <<>>
    /\ answers = <<>>
    /\ calls = <<>>
    /\ outcomes = <<>>
    /\ listing = "none"
    /\ OutsideIdle

(***************************************************************************)
(* The nodes of the graph, as functions of the AgentState                  *)
(***************************************************************************)

\* a faulty variant of PlanOnLlmError: the failure leaves the stored decision as it was
PlanOnLlmErrorKeepsDecision(st, e) == st

\* a faulty variant of PlanOnLlmError: the failed plan also wipes the scratchpad
PlanOnLlmErrorClearsScratch(st, e) ==
    [st EXCEPT !.decision =
                   [kind |-> "final",
                    final |-> <<MsgLlmFailedHead>> \o e \o <<MsgLlmFailedTail>>],
               !.scratchpad = <<>>]

\* plan_node, lines 173-178: llm.ainvoke raised e
PlanOnLlmError(st, e) ==
    [st EXCEPT !.decision =
        [kind |-> "final", final |-> <<MsgLlmFailedHead>> \o e \o <<MsgLlmFailedTail>>]]

\* a faulty variant of ParseFailureDecision: the fixed diagnostic whatever the text
ParseFailureDecisionSynthetic(text) == [kind |-> "final", final |-> <<MsgBadFormat>>]

\* plan_node, lines 187-190: the decision stored when parsing or validation raised
ParseFailureDecision(text) ==
    [kind |-> "final", final |-> IF text # <<>> THEN text ELSE <<MsgBadFormat>>]

\* a faulty variant of PlanOnText: the plan counts as a step
PlanOnTextCountsStep(st, text, tool_names) ==
    LET ex == ExtractJsonObj(text)
        vd == ValidateDecision(ex.obj, tool_names)
    IN  IF ex.ok /\ vd.ok
        THEN [st EXCEPT !.decision = vd.decision, !.steps = st.steps + 1]
        ELSE [st EXCEPT !.decision = ParseFailureDecision(text), !.steps = st.steps + 1]

\* plan_node, lines 183-192: text is the stripped content of the model's answer
PlanOnText(st, text, tool_names) ==
    LET ex == ExtractJsonObj(text)
        vd == ValidateDecision(ex.obj, tool_names)
    IN  IF ex.ok /\ vd.ok
        THEN [st EXCEPT !.decision = vd.decision]
        ELSE [st EXCEPT !.decision = ParseFailureDecision(text)]

\* a faulty variant of Route: the budget test is off by one (> for >=)
RouteOffByOne(st, max_steps) ==
    IF st.decision.kind = "final" THEN "final"
    ELSE IF st.steps > max_steps THEN "final"
    ELSE "act"

\* a faulty variant of Route: a tool decision is acted on whatever the step count
RouteIgnoresBudget(st, max_steps) ==
    IF st.decision.kind = "final" THEN "final" ELSE "act"

\* a faulty variant of Route: a final decision does not end the run
RouteIgnoresFinal(st, max_steps) ==
    IF st.steps >= max_steps THEN "final" ELSE "act"

\* a faulty variant of Route: the run ends one act before the budget is spent
RouteEndsEarly(st, max_steps) ==
    IF st.decision.kind = "final" THEN "final"
    ELSE IF st.steps + 1 >= max_steps THEN "final"
    ELSE "act"

\* route: the conditional edge after plan
Route(st, max_steps) ==
    IF st.decision.kind = "final" THEN "final"
    ELSE IF st.steps >= max_steps THEN "final"
    ELSE "act"

\* a faulty variant of ActOnResult: the new pair replaces the scratchpad
ActOnResultOverwrites(st, tool_result) ==
    LET name == st.decision.name
        args == Or(st.decision.args, EmptyDict)
        line == <<"\n","C","A","L","L"," ">> \o name \o <<" ","a","r","g","s","=">>
                \o Dumps(args) \o <<"\n","O","B","S"," ">> \o Dumps(tool_result) \o <<"\n">>
    IN  [st EXCEPT !.scratchpad = line,
                   !.last_tool = JStr(name),
                   !.last_result = tool_result]

\* act_node, lines 201-207: the tool returned tool_result
ActOnResult(st, tool_result) ==
    LET name == st.decision.name
        args == Or(st.decision.args, EmptyDict)
        line == <<"\n","C","A","L","L"," ">> \o name \o <<" ","a","r","g","s","=">>
                \o Dumps(args) \o <<"\n","O","B","S"," ">> \o Dumps(tool_result) \o <<"\n">>
    IN  [st EXCEPT !.scratchpad = st.scratchpad \o line,
                   !.last_tool = JStr(name),
                   !.last_result = tool_result]

\* a faulty variant of BumpSteps: the counter advances by two
BumpStepsTwice(st) == [st EXCEPT !.steps = st.steps + 2]

\* bump_steps
BumpSteps(st) == [st EXCEPT !.steps = st.steps + 1]

\* a faulty variant of FinalAnswer: the fallback of line 244 in place of the one of line 251
FinalAnswerWrongFallback(final_state) ==
    IF final_state.decision.kind = "final"
    THEN final_state.decision.final
    ELSE <<MsgNoFinalState>>

\* a faulty variant of FinalAnswer: a final decision counts only when no step was taken
FinalAnswerOnlyAtStepZero(final_state) ==
    IF final_state.decision.kind = "final" /\ final_state.steps = 0
    THEN final_state.decision.final
    ELSE <<MsgStepLimit>>

\* lines 246-251: the answer read from the final state of the graph
FinalAnswer(final_state) ==
    IF final_state.decision.kind = "final"
    THEN final_state.decision.final
    ELSE <<MsgStepLimit>>

\* a faulty variant of OnGraphError: no handler around app.ainvoke, the exception leaves
OnGraphErrorEscapes(e) == [pc |-> "raised", result |-> <<>>]

\* lines 235-239: what run_agent does when app.ainvoke raised e:
\* [pc, result] with pc = "raised" when the exception leaves run_agent
OnGraphError(e) == [pc |-> "done", result |-> <<MsgGraphFailed>> \o e]

\* lines 147-151: the catalog when get_mcp_tools raised
OnToolListError == <<>>


(***************************************************************************)
(* The steps of run_agent, cut at its await points                         *)
(***************************************************************************)

\* a faulty variant of Start: an empty question does not end the run
StartNoEarlyReturn ==
    /\ pc = "start"
    /\ question' = ExtractText(messages)
    /\ pc' = IF deps.use_tools THEN "await_tools" ELSE "plan"
    /\ listing' = IF deps.use_tools THEN "pending" ELSE listing
    /\ UNCHANGED <<outside, messages, deps, tools, state, prompt, result, answers, calls, outcomes>>

\* lines 141-152: flatten the conversation; return "" when it is empty, else
\* ask for the tool list (use_tools) or go on with no tools
Start ==
    /\ pc = "start"
    /\ question' = ExtractText(messages)
    /\ IF question' = <<>>
       THEN pc' = "done" /\ result' = <<>> /\ UNCHANGED listing
       ELSE /\ pc' = IF deps.use_tools THEN "await_tools" ELSE "plan"
            /\ listing' = IF deps.use_tools THEN "pending" ELSE listing
            /\ UNCHANGED result
    /\ UNCHANGED <<outside, messages, deps, tools, state, prompt, answers, calls, outcomes>>

\* line 148: get_mcp_tools returned raw
GetToolsReturn(raw) ==
    /\ pc = "await_tools"
    /\ tools' = CompactTools(raw)
    /\ listing' = "returned"
    /\ pc' = "plan"
    /\ UNCHANGED <<outside, messages, deps, question, state, prompt, result, answers, calls, outcomes>>

\* a faulty variant of GetToolsRaise: the listing failure leaves run_agent
GetToolsRaiseEscapes ==
    /\ pc = "await_tools"
    /\ listing' = "raised"
    /\ pc' = "raised"
    /\ UNCHANGED <<outside, messages, deps, question, tools, state, prompt, result, answers, calls, outcomes>>

\* lines 149-151: get_mcp_tools raised
GetToolsRaise ==
    /\ pc = "await_tools"
    /\ tools' = OnToolListError
    /\ listing' = "raised"
    /\ pc' = "plan"
    /\ UNCHANGED <<outside, messages, deps, question, state, prompt, result, answers, calls, outcomes>>

\* plan_node, lines 167-171: build the prompt and call the model
PlanCall ==
    /\ pc = "plan"
    /\ prompt' = BuildDecisionPrompt(question, tools, state.scratchpad)
    /\ pc' = "await_llm"
    /\ UNCHANGED <<outside, messages, deps, question, tools, state, result, answers, calls, outcomes, listing>>

\* the edge out of plan: route sends the run to act or to END
AfterPlan(st) ==
    /\ state' = st
    /\ pc' = IF Route(st, deps.max_steps) = "act" THEN "act" ELSE "end"

\* plan_node, lines 172-192, then route: the model answered with content
PlanLlmReturn(content) ==
    /\ pc = "await_llm"
    /\ answers' = Append(answers, [ok |-> TRUE, text |-> content])
    /\ AfterPlan(PlanOnText(state, Strip(content), ToolNames(tools)))
    /\ UNCHANGED <<outside, messages, deps, question, tools, prompt, result, calls, outcomes, listing>>

\* plan_node, lines 173-178, then route: llm.ainvoke raised e
PlanLlmRaise(e) ==
    /\ pc = "await_llm"
    /\ answers' = Append(answers, [ok |-> FALSE, text |-> e])
    /\ AfterPlan(PlanOnLlmError(state, e))
    /\ UNCHANGED <<outside, messages, deps, question, tools, prompt, result, calls, outcomes, listing>>

\* act_node, lines 195-200: call the tool of the stored decision
ActCall ==
    /\ pc = "act"
    /\ IF state.decision.kind # "tool"
       THEN pc' = "bump" /\ UNCHANGED calls
       ELSE /\ calls' = Append(calls, [name |-> state.decision.name,
                                       args |-> Or(state.decision.args, EmptyDict)])
            /\ pc' = "await_tool"
    /\ UNCHANGED <<outside, messages, deps, question, tools, state, prompt, result, answers, outcomes, listing>>

\* act_node, lines 200-207: the tool returned r
ActToolReturn(r) ==
    /\ pc = "await_tool"
    /\ state' = ActOnResult(state, r)
    /\ outcomes' = Append(outcomes, [ok |-> TRUE, v |-> r])
    /\ pc' = "bump"
    /\ UNCHANGED <<outside, messages, deps, question, tools, prompt, result, answers, calls, listing>>

\* {"success": false, "error": e}
FailedObservation(e) ==
    JObj(<<<<"s","u","c","c","e","s","s">>, <<"e","r","r","o","r">>>>, <<JBool(FALSE), JStr(e)>>)

\* a faulty variant of ActToolRaise: act_node catches e and records it as an observation
ActToolRaiseFolded(e) ==
    /\ pc = "await_tool"
    /\ state' = ActOnResult(state, FailedObservation(e))
    /\ outcomes' = Append(outcomes, [ok |-> FALSE, v |-> JStr(e)])
    /\ pc' = "bump"
    /\ UNCHANGED <<outside, messages, deps, question, tools, prompt, result, answers, calls, listing>>

\* line 200 raised e: nothing in act_node catches it, app.ainvoke raises it,
\* lines 237-239 handle it
ActToolRaise(e) ==
    /\ pc = "await_tool"
    /\ outcomes' = Append(outcomes, [ok |-> FALSE, v |-> JStr(e)])
    /\ pc' = OnGraphError(e).pc
    /\ result' = OnGraphError(e).result
    /\ UNCHANGED <<outside, messages, deps, question, tools, state, prompt, answers, calls, listing>>

\* a faulty variant of Bump: the edge out of bump leads back to act
BumpToAct ==
    /\ pc = "bump"
    /\ state' = BumpSteps(state)
    /\ pc' = "act"
    /\ UNCHANGED <<outside, messages, deps, question, tools, prompt, result, answers, calls, outcomes, listing>>

\* bump_steps, then the edge bump -> plan
Bump ==
    /\ pc = "bump"
    /\ state' = BumpSteps(state)
    /\ pc' = "plan"
    /\ UNCHANGED <<outside, messages, deps, question, tools, prompt, result, answers, calls, outcomes, listing>>

\* lines 241-251: the graph ended, run_agent returns
Finish ==
    /\ pc = "end"
    /\ result' = FinalAnswer(state)
    /\ pc' = "done"
    /\ UNCHANGED <<outside, messages, deps, question, tools, state, prompt, answers, calls, outcomes, listing>>

Next ==
    \/ Start
    \/ \E raw \in RawToolLists : GetToolsReturn(raw)
    \/ GetToolsRaise
    \/ PlanCall
    \/ \E content \in ModelTexts : PlanLlmReturn(content)
    \/ \E e \in Errors : PlanLlmRaise(e)
    \/ ActCall
    \/ \E r \in ToolResults : ActToolReturn(r)
    \/ \E e \in Errors : ActToolRaise(e)
    \/ Bump
    \/ Finish

Spec == Init /\ [][Next]_vars

\* every collaborator call returns or raises, and the event loop runs each
\* step that is ready
FairSpec == Spec /\ WF_vars(Next)


(***************************************************************************)
(* Vocabulary of the properties                                            *)
(***************************************************************************)

\* the number of llm.ainvoke calls made so far
AskCount == Len(answers) + IF pc = "await_llm" THEN 1 ELSE 0

\* the number of call_mcp_tool calls made so far
CallCount == Len(calls)

\* the catalog is settled: the run is past the tool listing
CatalogKnown == pc \notin {"start", "await_tools"}

\* _extract_json_obj applied to each text the model may answer, stripped as
\* line 172 strips it
ParsedTexts == [t \in ModelTexts |-> ExtractJsonObj(Strip(t))]

\* the JSON object a model answer holds, when it holds one
ObjectOf(content) == ParsedTexts[content]

\* the answer is a JSON object whose type reads "tool"
ProposesTool(content) ==
    /\ ObjectOf(content).ok
    /\ IsStr(Or(Get(ObjectOf(content).obj, K_type), JStr(<<>>)))
    /\ Lower(Strip(Or(Get(ObjectOf(content).obj, K_type), JStr(<<>>)).s)) = K_tool

\* the tool name such an answer proposes
ProposedName(content) ==
    Strip(PyStr(Or(Get(ObjectOf(content).obj, K_name), JStr(<<>>))))

\* the last model answer is a text (the call did not raise)
LastAnswerIsText == answers # <<>> /\ answers[Len(answers)].ok

LastText == answers[Len(answers)].text

(***************************************************************************)
(* Properties                                                              *)
(***************************************************************************)

\* C1: at every state of every run the number of call_mcp_tool calls made so
\* far is at most max_steps, whatever the model and the tools answer.
C1_ToolCallsWithinBudget == CallCount <= deps.max_steps

\* C1 witness: a run with a budget of two or more that has used all of it
C1_BudgetUsedUp == CallCount = deps.max_steps /\ CallCount >= 2 /\ pc = "done"

\* C2: with a non-empty catalog, a tool decision naming a tool that is not in
\* the catalog is never invoked: the plan stores a final decision, the run
\* goes to END, and the calls made are those of the earlier decisions only.
C2_AbsentToolNeverInvoked ==
    (/\ CatalogKnown
     /\ pc # "await_llm"
     /\ tools # <<>>
     /\ LastAnswerIsText
     /\ ProposesTool(LastText)
     /\ ~InList(ProposedName(LastText), ToolNames(tools)))
    => /\ pc \in {"end", "done"}
       /\ state.decision.kind = "final"
       /\ CallCount = Len(answers) - 1
       /\ \A i \in 1..CallCount : calls[i].name # ProposedName(LastText)

\* C2 witness: after one tool call, the model names a tool the catalog lacks
C2_AbsentToolProposed ==
    /\ pc = "done"
    /\ tools # <<>>
    /\ Len(answers) = 2
    /\ LastAnswerIsText
    /\ LastText = T_tool_unknown

\* C3: with an empty catalog every tool decision is invalid and call_mcp_tool
\* is called zero times during the whole run.
C3_EmptyCatalogNoInvocation ==
    (CatalogKnown /\ tools = <<>>) => CallCount = 0


\* parsing or validating the answer raises (lines 184-185)
ParseFails(content) ==
    \/ ~ObjectOf(content).ok
    \/ ~ValidateDecision(ObjectOf(content).obj, ToolNames(tools)).ok

\* the answer an act phase leaves in the scratchpad for one call
TraceLine(call, obs) ==
    <<"\n","C","A","L","L"," ">> \o call.name \o <<" ","a","r","g","s","=">>
    \o Dumps(call.args) \o <<"\n","O","B","S"," ">> \o Dumps(obs) \o <<"\n">>

\* the scratchpad that holds the first n calls and their results, in order
RECURSIVE ExpectedScratch(_)
ExpectedScratch(n) ==
    IF n = 0 THEN <<>>
    ELSE ExpectedScratch(n - 1) \o TraceLine(calls[n], outcomes[n].v)

\* every tool call made so far has returned a result
AllCallsReturned ==
    /\ Len(outcomes) = Len(calls)
    /\ \A i \in 1..Len(outcomes) : outcomes[i].ok

\* C4 (as claimed): after a parse or validation failure the answer returned is
\* the loop's own diagnostic, never the text the model produced.
C4_AnswerIsSyntheticDiagnostic ==
    (pc = "done" /\ LastAnswerIsText /\ ParseFails(LastText))
    => /\ result = <<MsgBadFormat>>
       /\ result # Strip(LastText)

\* C4 (amended): after a parse or validation failure the plan stores a final
\* decision whose text is the model's own output, stripped, and the fixed
\* format diagnostic only when that output is empty; the run goes to END,
\* returns that text, and no tool is invoked after the failure.
C4_ParseFailureReturnsRawText ==
    (CatalogKnown /\ pc # "await_llm" /\ LastAnswerIsText /\ ParseFails(LastText))
    => /\ pc \in {"end", "done"}
       /\ state.decision.kind = "final"
       /\ state.decision.final =
              IF Strip(LastText) # <<>> THEN Strip(LastText) ELSE <<MsgBadFormat>>
       /\ pc = "done" => result = state.decision.final
       /\ CallCount = Len(answers) - 1
       /\ AllCallsReturned

\* C4 witness: prose with no JSON, after one tool call, comes back as the answer
C4_ProseReturned ==
    /\ pc = "done"
    /\ Len(answers) = 2
    /\ LastAnswerIsText
    /\ LastText = T_prose
    /\ result = T_prose

\* C5 (as claimed): when call_mcp_tool raises, the error is recorded as a failed
\* observation, steps is incremented and the run goes on to the limit check.
C5_RaiseFoldedIntoObservation ==
    \A i \in 1..Len(outcomes) :
        ~outcomes[i].ok
        => /\ pc = "bump" \/ state.steps >= i
           /\ i = Len(outcomes) => state.last_result = FailedObservation(outcomes[i].v.s)
           /\ state.scratchpad # ExpectedScratch(i - 1)

\* C5 (amended): when call_mcp_tool raises, the graph run is abandoned: the
\* scratchpad and steps stay as they were before the act, no further model or
\* tool call is made, and run_agent returns the fixed agent-failed text
\* followed by the error.
C5_RaiseAbortsRun ==
    \A i \in 1..Len(outcomes) :
        ~outcomes[i].ok
        => /\ i = Len(outcomes)
           /\ pc = "done"
           /\ result = <<MsgGraphFailed>> \o outcomes[i].v.s
           /\ state.steps = i - 1
           /\ state.scratchpad = ExpectedScratch(i - 1)
           /\ Len(answers) = i
           /\ CallCount = i

\* C5 witness: the second tool call of a run raises
C5_SecondCallRaised ==
    /\ Len(outcomes) = 2
    /\ outcomes[1].ok
    /\ ~outcomes[2].ok

\* C6: whatever the collaborators do (listing fails, the model call fails or
\* answers anything, the tool fails or raises, the budget runs out), no
\* exception leaves run_agent, and what it returns is a string.
C6_AlwaysReturnsString ==
    /\ pc # "raised"
    /\ pc = "done" => result \in Seq(STRING)

\* C6 witness: a run whose tool listing failed and whose tool call raised has
\* returned
C6_ReturnedAfterFailures ==
    /\ pc = "done"
    /\ listing = "raised"
    /\ outcomes # <<>>
    /\ ~outcomes[Len(outcomes)].ok

\* C7 (as claimed): once steps has reached max_steps no further plan is
\* entered, so a run makes at most max_steps model calls.
C7_NoPlanAfterBudget ==
    /\ AskCount <= deps.max_steps
    /\ state.steps >= deps.max_steps => pc \in {"end", "done"}

\* C7 (amended): once steps has reached max_steps the run enters one more
\* plan and makes one more model call, so a run makes at most max_steps + 1
\* model calls; no tool is invoked after that plan, and when it proposes a
\* tool the run returns the fixed step-limit text.
C7_OnePlanAfterBudget ==
    /\ AskCount <= deps.max_steps + 1
    /\ state.steps <= deps.max_steps
    /\ state.steps = deps.max_steps
       => /\ pc \in {"plan", "await_llm", "end", "done"}
          /\ CallCount = deps.max_steps
          /\ AskCount = deps.max_steps + 1 => pc \in {"await_llm", "end", "done"}
    /\ (pc = "done" /\ state.steps = deps.max_steps /\ state.decision.kind = "tool")
       => result = <<MsgStepLimit>>

\* C7 witness: the plan after the last act proposed a tool and the run ended
\* with the step-limit text
C7_ExtraPlanProposedTool ==
    /\ pc = "done"
    /\ state.steps = deps.max_steps
    /\ AskCount = deps.max_steps + 1
    /\ state.decision.kind = "tool"
    /\ result = <<MsgStepLimit>>

\* the answer is a tool decision, valid by the protocol, for a tool of the catalog
ValidAllowedTool(content) ==
    /\ ProposesTool(content)
    /\ InList(ProposedName(content), ToolNames(tools))
    /\ \/ ~HasKey(ObjectOf(content).obj, K_args)
       \/ IsDict(Get(ObjectOf(content).obj, K_args))

\* every model answer so far was such a tool decision
OnlyAllowedToolAnswers ==
    /\ answers # <<>>
    /\ \A i \in 1..Len(answers) : answers[i].ok /\ ValidAllowedTool(answers[i].text)

C9_StepLimitOnceBudgetSpent ==
    (pc = "done" /\ state.steps = deps.max_steps) => result = <<MsgStepLimit>>

\* C9 (amended): every run ends and returns, after at most max_steps act
\* phases and at most max_steps + 1 plan phases; when it ends with no final
\* decision stored and no tool call raised, the answer is the fixed
\* step-limit text.
C9_RunTerminates ==
    /\ <>(pc = "done")
    /\ [](state.steps <= deps.max_steps /\ Len(outcomes) <= deps.max_steps)
    /\ [](Len(answers) <= deps.max_steps + 1)
    /\ []((pc = "done" /\ question # <<>> /\ state.decision.kind # "final"
              /\ AllCallsReturned)
          => (result = <<MsgStepLimit>> /\ state.steps = deps.max_steps))

\* C9 witness: a run that spent its budget and got a final from the last plan
C9_FinalAfterBudget ==
    /\ pc = "done"
    /\ state.steps = deps.max_steps
    /\ state.decision.kind = "final"
    /\ result = S_4

\* the answer is a JSON object whose type reads "final"
ProposesFinal(content) ==
    /\ ObjectOf(content).ok
    /\ IsStr(Or(Get(ObjectOf(content).obj, K_type), JStr(<<>>)))
    /\ Lower(Strip(Or(Get(ObjectOf(content).obj, K_type), JStr(<<>>)).s)) = K_final

\* the text of such a final decision: str(obj.get("final") or "")
FinalTextOf(content) == PyStr(Or(Get(ObjectOf(content).obj, K_final), JStr(<<>>)))

\* C10: when the first model answer is a valid final decision, the run makes
\* that one model call and no tool call, steps stays 0, and run_agent
\* returns exactly the decision's text.
C10_FirstFinalIsReturned ==
    (answers # <<>> /\ answers[1].ok /\ ProposesFinal(answers[1].text))
    => /\ Len(answers) = 1
       /\ AskCount = 1
       /\ CallCount = 0
       /\ state.steps = 0
       /\ pc \in {"end", "done"}
       /\ pc = "done" => result = FinalTextOf(answers[1].text)

\* C10 witness: scenario A, the fenced form: the first answer is the final "4"
C10_ScenarioA ==
    /\ pc = "done"
    /\ messages = MsgsQuestion
    /\ answers = <<[ok |-> TRUE, text |-> InFence(T_final)]>>
    /\ result = S_4


\* C11: when the flattened text of the conversation is empty (the message
\* list is empty or missing) run_agent returns the empty string at once: no
\* tool listing, no model call and no tool call is made.
C11_EmptyConversationReturnsEmpty ==
    /\ ExtractText(messages) = <<>> <=> messages \in {JNull, JArr(<<>>)}
    /\ ExtractText(messages) = <<>>
       => /\ pc \in {"start", "done"}
          /\ pc = "done" => result = <<>>
          /\ listing = "none"
          /\ AskCount = 0
          /\ CallCount = 0
          /\ outcomes = <<>>

\* C11 witness: a run with tools enabled and a missing message list has returned
C11_MissingListReturned ==
    /\ pc = "done"
    /\ messages = JNull
    /\ deps.use_tools
    /\ result = <<>>


\* the final text plan_node stores when llm.ainvoke raised e (line 177)
LlmFailedText(e) == <<MsgLlmFailedHead>> \o e \o <<MsgLlmFailedTail>>

\* C12: when the model call raises at any plan, the first or one that follows
\* tool calls, the plan stores a final decision carrying the call-failed
\* diagnostic, the run goes to END and returns it, and no model or tool call
\* is made after the failure.
C12_LlmFailureForcesFinal ==
    \A i \in 1..Len(answers) :
        ~answers[i].ok
        => /\ i = Len(answers)
           /\ pc \in {"end", "done"}
           /\ state.decision = [kind |-> "final", final |-> LlmFailedText(answers[i].text)]
           /\ pc = "done" => result = LlmFailedText(answers[i].text)
           /\ CallCount = i - 1
           /\ AllCallsReturned
           /\ state.steps = i - 1

\* C12 witness: the model call of the plan after a tool call raised
C12_SecondAskRaised ==
    /\ pc = "done"
    /\ Len(answers) = 2
    /\ answers[1].ok
    /\ ~answers[2].ok
    /\ Len(outcomes) = 1

\* a is a prefix of b
IsPrefix(a, b) == Len(a) <= Len(b) /\ SubSeq(b, 1, Len(a)) = a

\* the start of a CALL line in the scratchpad
CallMark == <<"\n","C","A","L","L"," ">>

\* the number of CALL/OBS pairs the scratchpad holds
PairCount(scratch) ==
    Cardinality({i \in 1..Len(scratch) :
                    scratch[i] = CallMark[1] /\ StartsWithAt(scratch, i, CallMark)})

\* the number of tool calls that returned
ReturnedCount == Cardinality({i \in 1..Len(outcomes) : outcomes[i].ok})

\* C13 (as claimed): every act phase that called a tool has appended one
\* CALL/OBS pair, so the scratchpad holds as many pairs as tools were invoked.
C13_PairForEveryInvocation ==
    pc # "await_tool" => PairCount(state.scratchpad) = CallCount

\* C13 (amended): the scratchpad is append-only; each act phase whose tool call
\* returns appends exactly one CALL line and one OBS line for that call, and a
\* call that raises appends nothing (it is the last call of the run); so the
\* pairs in the scratchpad are the tool calls that returned, in call order.
C13_ScratchpadAppendOnly ==
    /\ [](/\ state.scratchpad = ExpectedScratch(ReturnedCount)
          /\ PairCount(state.scratchpad) = ReturnedCount
          /\ \A i \in 1..Len(outcomes) : ~outcomes[i].ok => i = Len(outcomes))
    /\ [][/\ IsPrefix(state.scratchpad, state'.scratchpad)
          /\ state'.scratchpad # state.scratchpad
             => /\ pc = "await_tool"
                /\ Len(outcomes') = Len(outcomes) + 1
                /\ outcomes'[Len(outcomes')].ok
                /\ state'.scratchpad =
                       state.scratchpad
                       \o TraceLine(calls[Len(calls)], outcomes'[Len(outcomes')].v)]_vars

\* C13 witness: one call returned, then a call raised: one pair, two calls
C13_PairThenRaise ==
    /\ pc = "done"
    /\ CallCount = 2
    /\ ReturnedCount = 1
    /\ PairCount(state.scratchpad) = 1

\* C14: steps never decreases; it changes only in bump_steps, by one, once
\* per completed act phase; plan phases leave it alone; so at every plan
\* steps is the number of tool calls completed so far.
C14_StepsCountCompletedActs ==
    /\ [][/\ state'.steps >= state.steps
          /\ state'.steps # state.steps => (pc = "bump" /\ state'.steps = state.steps + 1)
          /\ pc \in {"plan", "await_llm"} => state'.steps = state.steps]_vars
    /\ [](pc \in {"plan", "await_llm"}
          => (state.steps = Len(outcomes) /\ AllCallsReturned))
    /\ [](pc = "bump" => (state.steps = Len(outcomes) - 1 /\ AllCallsReturned))
    /\ []((answers # <<>> /\ CallCount = 0) => state.steps = 0)

\* C14 witness: the third plan of a run, two acts completed
C14_ThirdPlan ==
    /\ pc = "await_llm"
    /\ state.steps = 2
    /\ Len(outcomes) = 2
    /\ Len(answers) = 2

\* C15 (as claimed): when the graph reaches END the stored decision is a
\* final decision; END with a tool decision stored is unreachable.
C15_TerminalDecisionIsFinal ==
    pc = "end" => state.decision.kind = "final"

\* C15 (amended): when the graph reaches END the stored decision is never
\* absent: it is a final decision, whose text run_agent returns, or it is the
\* tool decision of the plan that followed the max_steps-th act, which is not
\* acted on and for which run_agent returns the fixed step-limit text.
C15_TerminalDecisionFinalOrToolAtLimit ==
    /\ pc = "end"
       => \/ state.decision.kind = "final"
          \/ /\ state.decision.kind = "tool"
             /\ state.steps = deps.max_steps
             /\ CallCount = deps.max_steps
             /\ AllCallsReturned
             /\ LastAnswerIsText
             /\ ~ParseFails(LastText)
    /\ (pc = "done" /\ question # <<>> /\ AllCallsReturned)
       => \/ state.decision.kind = "final" /\ result = state.decision.final
          \/ /\ state.decision.kind = "tool"
             /\ state.steps = deps.max_steps
             /\ result = <<MsgStepLimit>>

\* C15 witness: the graph is at END with a tool decision stored
C15_ToolDecisionAtEnd ==
    /\ pc = "end"
    /\ state.decision.kind = "tool"
    /\ state.decision.name = N_echo
    /\ deps.max_steps = MaxSteps

\* the answer is a tool decision whose args member is present and is not an object
ExplicitNonObjectArgs(content) ==
    /\ ProposesTool(content)
    /\ HasKey(ObjectOf(content).obj, K_args)
    /\ ~IsDict(Get(ObjectOf(content).obj, K_args))

\* C16: a tool decision whose args member is present and is not a JSON object
\* (empty and zero values included) is rejected: the plan stores a final
\* decision, the run goes to END and the tool is not invoked.
C16_NonObjectArgsRejected ==
    (CatalogKnown /\ pc # "await_llm" /\ LastAnswerIsText /\ ExplicitNonObjectArgs(LastText))
    => /\ pc \in {"end", "done"}
       /\ state.decision.kind = "final"
       /\ CallCount = Len(answers) - 1

\* the answer is a JSON object whose type is neither "tool" nor "final"
UnknownType(content) ==
    /\ ObjectOf(content).ok
    /\ ~ProposesTool(content)
    /\ ~ProposesFinal(content)

\* C17: a parsed JSON object whose type is missing, empty, not a string, or
\* anything but "tool" or "final" after strip and lower makes validation raise:
\* the plan stores the forced final of the failure path, the run goes to END,
\* and no tool is invoked for it.
C17_UnknownTypeForcesFinal ==
    (CatalogKnown /\ pc # "await_llm" /\ LastAnswerIsText /\ UnknownType(LastText))
    => /\ ~ValidateDecision(ObjectOf(LastText).obj, ToolNames(tools)).ok
       /\ pc \in {"end", "done"}
       /\ state.decision = ParseFailureDecision(Strip(LastText))
       /\ pc = "done" => result = Strip(LastText)
       /\ CallCount = Len(answers) - 1
       /\ AllCallsReturned

\* C17 witness: after one tool call the model answers {"final":"4"}, no type
C17_TypeMissingAfterTool ==
    /\ pc = "done"
    /\ Len(answers) = 2
    /\ LastAnswerIsText
    /\ LastText = T_type_missing
    /\ CallCount = 1
    /\ result = T_type_missing

\* the decision _validate_decision returns for a model answer
DecisionOf(content) ==
    ValidateDecision(ObjectOf(content).obj, ToolNames(tools))

\* C18: the collaborator calls of a run are sequential and alternate: at most
\* one model call or tool call is outstanding; the i-th tool call is made
\* right after the i-th model call, whose validated decision is a tool
\* decision with the name and the arguments of the call; no two tool calls
\* are made without a model call between them.
C18_CallsAlternate ==
    /\ [](/\ Len(calls) - Len(outcomes) \in {0, 1}
          /\ pc = "await_tool" <=> Len(calls) = Len(outcomes) + 1
          /\ pc = "await_llm" => Len(calls) = Len(outcomes)
          /\ Len(calls) <= Len(answers)
          /\ Len(answers) <= Len(calls) + 1
          /\ pc = "await_tool" => Len(answers) = Len(calls)
          /\ \A i \in 1..Len(calls) :
                /\ answers[i].ok
                /\ ObjectOf(answers[i].text).ok
                /\ DecisionOf(answers[i].text).ok
                /\ DecisionOf(answers[i].text).decision =
                       [kind |-> "tool", name |-> calls[i].name, args |-> calls[i].args])
    /\ [][/\ Len(calls') > Len(calls)
             => /\ Len(calls') = Len(calls) + 1
                /\ Len(answers) = Len(calls')
                /\ Len(outcomes) = Len(calls)
                /\ answers' = answers
          /\ Len(answers') > Len(answers)
             => /\ Len(answers') = Len(answers) + 1
                /\ Len(outcomes) = Len(calls)
                /\ Len(calls) = Len(answers)
                /\ calls' = calls]_vars

\* C18 witness: the second tool call of a run is outstanding, after two model
\* calls that proposed two different tools
C18_SecondCallOutstanding ==
    /\ pc = "await_tool"
    /\ Len(answers) = 2
    /\ answers[2].text = T_tool_echo
    /\ calls = <<[name |-> N_calc_add,
                  args |-> JObj(<<<<"a">>, <<"b">>>>, <<JNum(2), JNum(2)>>)],
                 [name |-> N_echo, args |-> EmptyDict]>>

\* the arguments a valid tool decision carries: its args object, or {} when absent
ProposedArgs(content) ==
    IF HasKey(ObjectOf(content).obj, K_args)
    THEN Get(ObjectOf(content).obj, K_args)
    ELSE EmptyDict

\* C19: for every k < max_steps, when the model answers k valid tool
\* decisions for allowed tools and then a valid final decision, run_agent
\* returns the text of that final after exactly k tool calls, the i-th made
\* with the name and the arguments of the i-th decision.
C19_ToolsThenFinal ==
    (/\ pc = "done"
     /\ LastAnswerIsText
     /\ ProposesFinal(LastText)
     /\ Len(answers) - 1 < deps.max_steps
     /\ \A i \in 1..(Len(answers) - 1) : answers[i].ok /\ ValidAllowedTool(answers[i].text))
    => /\ result = FinalTextOf(LastText)
       /\ CallCount = Len(answers) - 1
       /\ state.steps = CallCount
       /\ AllCallsReturned
       /\ \A i \in 1..CallCount :
             /\ calls[i].name = ProposedName(answers[i].text)
             /\ calls[i].args = ProposedArgs(answers[i].text)

\* C19 witness: scenario B: one call of calc.add with a = 2, b = 2 returns
\* data 4, the second answer is the final "4"
C19_ScenarioB ==
    /\ pc = "done"
    /\ deps.max_steps = 2
    /\ answers = <<[ok |-> TRUE, text |-> T_tool_add], [ok |-> TRUE, text |-> T_final]>>
    /\ InList(N_calc_add, ToolNames(tools))
    /\ calls = <<[name |-> N_calc_add,
                  args |-> JObj(<<<<"a">>, <<"b">>>>, <<JNum(2), JNum(2)>>)]>>
    /\ outcomes = <<[ok |-> TRUE,
                     v |-> JObj(<<<<"s","u","c","c","e","s","s">>, <<"d","a","t","a">>>>,
                                <<JBool(TRUE), JNum(4)>>)]>>
    /\ result = S_4

\* the tool result reports a failure: its success member is false
ReportsFailure(v) ==
    /\ IsDict(v)
    /\ HasKey(v, <<"s","u","c","c","e","s","s">>)
    /\ Get(v, <<"s","u","c","c","e","s","s">>) = JBool(FALSE)

\* C20: a tool result with success = false that is returned, not raised, does
\* not end the run: its CALL/OBS pair is in the scratchpad after all earlier
\* pairs, the run goes on to the next plan, and the prompt of that plan (of
\* every plan) carries the whole scratchpad.
C20_FailedObservationFeedsNextPlan ==
    /\ \A i \in 1..Len(outcomes) :
          (outcomes[i].ok /\ ReportsFailure(outcomes[i].v))
          => /\ IsPrefix(ExpectedScratch(i), state.scratchpad)
             /\ \/ i = Len(outcomes) /\ pc \in {"bump", "plan"}
                \/ AskCount >= i + 1
    /\ pc = "await_llm"
       => /\ AllCallsReturned
          /\ prompt.scratchpad = ExpectedScratch(Len(outcomes))
          /\ prompt.scratchpad = state.scratchpad
          /\ prompt.question = question

\* C20 witness: the third plan's prompt holds a successful pair, then a failed one
C20_PromptHoldsFailedObservation ==
    /\ pc = "await_llm"
    /\ Len(outcomes) = 2
    /\ ~ReportsFailure(outcomes[1].v)
    /\ ReportsFailure(outcomes[2].v)
    /\ prompt.scratchpad = ExpectedScratch(2)
    /\ PairCount(prompt.scratchpad) = 2

\* C21: no step leaves the agent state half-changed: a plan phase, whether
\* the model answers or the call raises, leaves scratchpad, steps, last_tool
\* and last_result as they were, and an act phase whose tool call raises
\* leaves the whole state, scratchpad and steps included, as it was when the
\* act began.
C21_TransitionsAtomic ==
    [][/\ pc \in {"plan", "await_llm"}
          => /\ state'.scratchpad = state.scratchpad
             /\ state'.steps = state.steps
             /\ state'.last_tool = state.last_tool
             /\ state'.last_result = state.last_result
       /\ pc = "act" => state' = state
       /\ (pc = "await_tool" /\ ~outcomes'[Len(outcomes')].ok) => state' = state]_vars

\* C21 witness: the second tool call raised after a plan that followed the
\* first: the state still holds the first act's pair, step and result only
C21_RaiseLeftStateAsBefore ==
    /\ pc = "done"
    /\ Len(outcomes) = 2
    /\ ~outcomes[2].ok
    /\ state.steps = 1
    /\ state.scratchpad = ExpectedScratch(1)
    /\ state.last_tool = JStr(calls[1].name)
    /\ state.last_result = outcomes[1].v

\* C23: when tools are enabled and get_mcp_tools raises, the run does not
\* fail: the catalog is empty and the run goes on to its first plan, whose
\* prompt lists no tool.
C23_ListingFailureMeansNoTools ==
    listing = "raised"
    => /\ deps.use_tools
       /\ tools = <<>>
       /\ pc \notin {"start", "await_tools", "raised"}
       /\ pc = "plan" \/ AskCount >= 1
       /\ AskCount >= 1
          => /\ prompt.tool_names = <<>>
             /\ prompt.tools_desc = <<"(none)">>
             /\ prompt.question = question

\* C23 witness: the first model call of a run whose tool listing raised is
\* outstanding
C23_FirstPlanAfterListingFailure ==
    /\ listing = "raised"
    /\ pc = "await_llm"
    /\ answers = <<>>
    /\ prompt.tools_desc = <<"(none)">>

(***************************************************************************)
(* The decision parser alone: _extract_json_obj, then _validate_decision,  *)
(* as plan_node applies them (lines 172, 184-185) to one model answer      *)
(***************************************************************************)

\* no run_agent call of the single-run model is part of the behaviour
RunAbsent ==
    /\ pc = "absent"
    /\ messages = JNull
    /\ deps = [max_steps |-> 1, use_tools |-> FALSE]
    /\ question = <<>>
    /\ tools = <<>>
    /\ state = InitState
    /\ prompt = NoPrompt
    /\ result = <<>>
    /\ answers = <<>>
    /\ calls = <<>>
    /\ outcomes = <<>>
    /\ listing = "none"

\* the texts x of the final decisions the model may give
FinalTexts ==
    {<<"x">>, <<>>, S_4, <<"a"," ","b">>, <<" ","x"," ">>, <<"a","\"","b">>,
     <<"}">>, <<"{","a","}">>, <<"\n">>, <<"\\">>,
     Fence, Fence \o <<"a">> \o Fence}

\* the clean decision {"type":"final","final":x}, x written as a JSON string
CleanFinal(x) == Obj2(Member(K_type, Q(K_final)), Member(K_final, DumpsStr(x)))

\* how the model may present a decision: as it is, inside whitespace, or in
\* a fenced block, untagged or tagged json or JSON
Wrappers == {"plain", "space", "fence", "fence_json", "fence_JSON"}

Wrap(w, t) ==
    CASE w = "plain" -> t
      [] w = "space" -> <<" ", "\n">> \o t \o <<"\n", " ">>
      [] w = "fence" -> Fence \o <<"\n">> \o t \o <<"\n">> \o Fence
      [] w = "fence_json" -> Fence \o JsonTag \o <<"\n">> \o t \o <<"\n">> \o Fence
      [] w = "fence_JSON" -> Fence \o <<"J","S","O","N"," ">> \o t \o Fence

\* plan_node, lines 172 and 184-185: the decision parsed from resp.content;
\* ok = FALSE stands for the exception either function raised
DecisionOfText(content, tool_names) ==
    LET ex == ExtractJsonObj(Strip(content))
    IN  IF ex.ok THEN ValidateDecision(ex.obj, tool_names)
        ELSE ValidateFail("no JSON object")

ParseInit ==
    /\ RunAbsent
    /\ parse \in [wrap : Wrappers, x : FinalTexts, names : {<<>>, <<N_calc_add>>},
                  done : {FALSE}, out : {NoParse.out}]
    /\ CacheIdle /\ ChatIdle /\ RunsIdle /\ RestIdle

\* the parser is applied to the answer
ParseDecision ==
    /\ ~parse.done
    /\ parse' = [parse EXCEPT
                    !.done = TRUE,
                    !.out = DecisionOfText(Wrap(parse.wrap, CleanFinal(parse.x)),
                                           parse.names)]
    /\ UNCHANGED <<run_vars, rest, mcp_tools_cache, clock, pending, served, fetches, chat, runs>>

ParseNext == ParseDecision

ParseSpec == ParseInit /\ [][ParseNext]_vars

\* C26: parsing the clean decision {"type":"final","final":x} gives the
\* final decision with text x, for every text x, and gives the same when the
\* JSON is inside whitespace or in a fenced block, tagged json or not.
C26_CleanFinalParses ==
    parse.done
    => parse.out = [ok |-> TRUE, err |-> "",
                    decision |-> [kind |-> "final", final |-> parse.x]]

(***************************************************************************)
(* get_mcp_tools and the module-level cache _mcp_tools_cache               *)
(* (langchain_service.py).  Several requests may be inside get_mcp_tools   *)
(* at once: each suspends at its await of the main server, and wall-clock  *)
(* time passes while it is suspended.                                      *)
(*   clock            time.time()                                          *)
(*   mcp_tools_cache  the cache dict; fetched_at is an observer field, the *)
(*                    time at which the cached list arrived                *)
(*   pending          the calls suspended at the await, each with its      *)
(*                    current_time and the cache it saw on entry           *)
(*   served           observer: the last return of get_mcp_tools           *)
(*   fetches          observer: the number of upstream requests issued     *)
(***************************************************************************)

\* _mcp_tools_cache_ttl
Ttl == 60

\* how far the clock runs in the model
MaxElapsed == 120

\* how many upstream requests the model issues
MaxFetches == 2

\* two calls may be suspended at the await at once
MaxInFlight == IF MaxFetches < 2 THEN MaxFetches ELSE 2

\* the steps by which the clock advances between two events: half the TTL
\* and one second less than the TTL
Advances == {Ttl \div 2, Ttl - 1}

K_tools == <<"t","o","o","l","s">>

\* what call_main_server_json may return for GET /api/mcp/tools: a dict
\* with a tool list, with an empty list, with no tools key, with tools null,
\* and a body that is not a dict
UpstreamResults ==
    {JObj(<<K_tools>>, <<JArr(<<RawCalcAdd>>)>>),
     JObj(<<K_tools>>, <<JArr(<<RawEcho>>)>>),
     JObj(<<K_tools>>, <<JArr(<<>>)>>),
     EmptyDict,
     JObj(<<K_tools>>, <<JNull>>),
     JArr(<<>>)}

\* line 36: result.get("tools", []) if isinstance(result, dict) else []
ResultTools(upstream) ==
    IF IsDict(upstream) /\ HasKey(upstream, K_tools)
    THEN Get(upstream, K_tools)
    ELSE JArr(<<>>)

CacheValidIgnoresTtl(cache, current_time) == Truthy(cache.tools)

CacheValidServesEmpty(cache, current_time) ==
    current_time - cache.timestamp < Ttl

\* line 30: the cache is served when it is younger than the TTL and its
\* list is not empty
CacheValid(cache, current_time) ==
    /\ current_time - cache.timestamp < Ttl
    /\ Truthy(cache.tools)

OnFetchFailedDropsCache(cache) ==
    [kind |-> "stale", tools |-> cache.tools, cache |-> EmptyCache]

\* lines 40-48: the three except clauses log and fall through to
\* `return _mcp_tools_cache.get("tools", [])`; the cache is not assigned
OnFetchFailed(cache) ==
    [kind |-> "stale", tools |-> cache.tools, cache |-> cache]

CacheInit ==
    /\ RunAbsent
    /\ ParseIdle /\ ChatIdle /\ RunsIdle /\ RestIdle
    /\ mcp_tools_cache = EmptyCache
    /\ clock = Ttl
    /\ pending = <<>>
    /\ served = NotServed
    /\ fetches = 0

\* lines 28-34: a call enters get_mcp_tools; it returns the cached list at
\* once, or issues the upstream request and suspends
GetMcpToolsCall ==
    /\ IF CacheValid(mcp_tools_cache, clock)
       THEN /\ served' = [kind |-> "hit", tools |-> mcp_tools_cache.tools,
                          asked_at |-> clock, at |-> clock,
                          fetched_at |-> mcp_tools_cache.fetched_at,
                          requested |-> FALSE, seen |-> mcp_tools_cache,
                          before |-> mcp_tools_cache, left |-> mcp_tools_cache]
            /\ UNCHANGED <<pending, fetches>>
       ELSE /\ Len(pending) < MaxInFlight
            /\ fetches < MaxFetches
            /\ pending' = Append(pending, [t |-> clock, seen |-> mcp_tools_cache])
            /\ fetches' = fetches + 1
            /\ UNCHANGED served
    /\ UNCHANGED <<run_vars, rest, parse, mcp_tools_cache, clock, chat, runs>>

Without(seq, i) == SubSeq(seq, 1, i - 1) \o SubSeq(seq, i + 1, Len(seq))

\* lines 34-39: the main server answers a suspended call; the cache is
\* replaced, stamped with the time the call ENTERED get_mcp_tools.  When
\* tools is None, len(tools) raises after the assignment and line 48
\* returns the None just cached.
FetchReturns(i, upstream) ==
    /\ i \in 1..Len(pending)
    /\ LET fetched == ResultTools(upstream)
           cache == [tools |-> fetched, timestamp |-> pending[i].t,
                     fetched_at |-> clock]
       IN  /\ mcp_tools_cache' = cache
           /\ served' = [kind |-> "fetched", tools |-> fetched,
                         asked_at |-> pending[i].t, at |-> clock,
                         fetched_at |-> clock, requested |-> TRUE,
                         seen |-> pending[i].seen,
                         before |-> mcp_tools_cache, left |-> cache]
    /\ pending' = Without(pending, i)
    /\ UNCHANGED <<run_vars, rest, parse, clock, fetches, chat, runs>>

\* lines 40-48: call_main_server_json raises in a suspended call
FetchRaises(i) ==
    /\ i \in 1..Len(pending)
    /\ LET out == OnFetchFailed(mcp_tools_cache)
       IN  /\ mcp_tools_cache' = out.cache
           /\ served' = [kind |-> out.kind, tools |-> out.tools,
                         asked_at |-> pending[i].t, at |-> clock,
                         fetched_at |-> mcp_tools_cache.fetched_at,
                         requested |-> TRUE, seen |-> pending[i].seen,
                         before |-> mcp_tools_cache, left |-> out.cache]
    /\ pending' = Without(pending, i)
    /\ UNCHANGED <<run_vars, rest, parse, clock, fetches, chat, runs>>

\* time passes
ClockAdvance(d) ==
    /\ clock + d <= Ttl + MaxElapsed
    /\ clock' = clock + d
    /\ UNCHANGED <<run_vars, rest, parse, mcp_tools_cache, pending, served, fetches, chat, runs>>

CacheNext ==
    \/ GetMcpToolsCall
    \/ \E i \in 1..MaxInFlight, upstream \in UpstreamResults : FetchReturns(i, upstream)
    \/ \E i \in 1..MaxInFlight : FetchRaises(i)
    \/ \E d \in Advances : ClockAdvance(d)

CacheSpec == CacheInit /\ [][CacheNext]_vars

\* C28: get_mcp_tools never raises; when the upstream fetch fails it returns
\* the list the cache holds at that moment (the empty list if nothing was
\* ever cached) and leaves the cache, list and time stamp, as it was.
C28_FetchFailureServesCache ==
    /\ served.kind # "raised"
    /\ served.kind = "stale"
       => /\ served.tools = served.before.tools
          /\ served.left = served.before
          /\ served.before.fetched_at = 0 => served.tools = JArr(<<>>)

\* a fetch failed while the cache held a list
C28_FailedWithListCached ==
    /\ served.kind = "stale"
    /\ Truthy(served.tools)
    /\ served.left = mcp_tools_cache

\* C29 as stated: every list get_mcp_tools returns arrived from the main
\* server at most the TTL before the call that returns it.
C29_EveryListWithinTtl ==
    (served.kind # "none" /\ served.fetched_at > 0)
    => served.asked_at - served.fetched_at <= Ttl

\* C29, amended: a list returned as a cache hit, or fetched by the call
\* itself, arrived less than the TTL before the call; a list returned
\* because the fetch failed is the cached one whatever its age.
C29_HitsAndFetchesWithinTtl ==
    /\ served.kind \in {"hit", "fetched"}
       => served.asked_at - served.fetched_at < Ttl
    /\ served.kind = "hit" => served.fetched_at > 0
    /\ served.kind = "stale" => served.fetched_at = served.before.fetched_at

\* a failed fetch returned a list older than the TTL
C29_StaleBeyondTtl ==
    /\ served.kind = "stale"
    /\ Truthy(served.tools)
    /\ served.asked_at - served.fetched_at > Ttl

\* C30 as stated: a call made less than 60 seconds after the successful
\* fetch of the non-empty list in the cache returns that list and issues no
\* request; a call that finds the cached list empty issues a request.
C30_CallWithinTtlOfFetchIsServed ==
    /\ (/\ served.kind # "none"
        /\ Truthy(served.seen.tools)
        /\ served.asked_at - served.seen.fetched_at < Ttl)
       => /\ served.kind = "hit"
          /\ served.tools = served.seen.tools
          /\ ~served.requested
    /\ \A i \in 1..Len(pending) :
          ~(/\ Truthy(pending[i].seen.tools)
            /\ pending[i].t - pending[i].seen.fetched_at < Ttl)
    /\ (served.kind # "none" /\ ~Truthy(served.seen.tools)) => served.requested

\* C30, amended: the 60 seconds count from the time stamp of the cache,
\* which is the time the fetching call entered get_mcp_tools, not the time
\* its list arrived.  A call is served from the cache exactly when the
\* cached list is non-empty and the call is less than 60 seconds after that
\* time stamp; every other call, so every call that finds the cached list
\* empty, issues a request.
C30_ServedWithinTtlOfStamp ==
    /\ served.kind # "none"
       => /\ served.kind = "hit"
             <=> /\ Truthy(served.seen.tools)
                 /\ served.asked_at - served.seen.timestamp < Ttl
          /\ served.kind = "hit"
             => served.tools = served.seen.tools /\ ~served.requested
          /\ served.kind # "hit" => served.requested
    /\ \A i \in 1..Len(pending) :
          ~(/\ Truthy(pending[i].seen.tools)
            /\ pending[i].t - pending[i].seen.timestamp < Ttl)

\* a call one second inside the TTL was served a list that had arrived
\* after the time stamp
C30_HitAtTtlEdge ==
    /\ served.kind = "hit"
    /\ served.asked_at - served.seen.timestamp = Ttl - 1
    /\ served.seen.fetched_at > served.seen.timestamp

\* C31: with overlapping get_mcp_tools calls the cache never goes back: the
\* time stamp never decreases, and a call that entered earlier and finishes
\* later does not replace the list stored by a call that entered after it.
C31_CacheNeverRegresses ==
    served.kind = "fetched"
    => /\ served.left.timestamp >= served.before.timestamp
       /\ served.asked_at >= served.before.timestamp

(***************************************************************************)
(* chat_handler (langchain_service.py) and AgentDeps.__init__ (agent.py)   *)
(*   chat   one request: its body, the configuration read for it, where    *)
(*          the handler is, and what it answered                           *)
(***************************************************************************)

\* the parameters of AgentDeps.__init__, line 128; all but timeout are
\* required
AgentDepsParams ==
    {"main_server_url", "provider_or_model", "temperature", "max_tokens",
     "max_steps", "verbose", "use_tools", "get_mcp_tools", "call_mcp_tool",
     "timeout"}

NoDeps == [max_steps |-> 0, use_tools |-> FALSE]

AgentDepsInitValidates(kwargs) ==
    IF kwargs.max_steps >= 1 /\ kwargs.names \subseteq AgentDepsParams \cup {"max_tools"}
    THEN [ok |-> TRUE, err |-> "",
          deps |-> [max_steps |-> kwargs.max_steps, use_tools |-> kwargs.use_tools]]
    ELSE [ok |-> FALSE, err |-> "ValueError", deps |-> NoDeps]

\* AgentDeps(**kwargs): Python raises TypeError for a keyword that is not a
\* parameter and for a missing required parameter; the body stores the
\* arguments as they are
AgentDepsInit(kwargs) ==
    IF /\ kwargs.names \subseteq AgentDepsParams
       /\ (AgentDepsParams \ {"timeout"}) \subseteq kwargs.names
    THEN [ok |-> TRUE, err |-> "",
          deps |-> [max_steps |-> kwargs.max_steps, use_tools |-> kwargs.use_tools]]
    ELSE [ok |-> FALSE, err |-> "TypeError", deps |-> NoDeps]

\* langchain.max_steps default, line 144
DefaultMaxSteps == 6

\* langchain.max_tools default, line 150
DefaultMaxTools == 40

\* int(config.get(key, default) or default): raw is JNull when the key is
\* not configured
ConfigInt(raw, default) == IF Truthy(raw) THEN raw.n ELSE default

\* the keyword arguments of lines 139-151
ChatKwargs(cfg) ==
    [names |-> AgentDepsParams \cup {"max_tools"},
     max_steps |-> ConfigInt(cfg.max_steps, DefaultMaxSteps),
     use_tools |-> TRUE,
     max_tools |-> ConfigInt(cfg.max_tools, DefaultMaxTools)]

\* line 99
MessagesValid(msgs) == Truthy(msgs) /\ msgs.ty = "arr"

\* request bodies and configurations
ChatRequests ==
    [messages : Conversations \cup {JStr(<<"h","i">>)},
     stream : BOOLEAN, use_tools : BOOLEAN]

ChatConfigs ==
    [enabled : BOOLEAN,
     max_steps : {JNull, JNum(0), JNum(2), JNum(0 - 1)},
     max_tools : {JNull, JNum(0), JNum(1)}]

\* lines 137: the request is to be answered by the agent
AgentMode(c) == ~c.req.stream /\ c.req.use_tools /\ c.cfg.enabled

U_text == <<"u","p">>

\* what run_agent may do when it is called: return a text or raise
AgentOutcomes == {[ok |-> TRUE, text |-> S_4], [ok |-> FALSE, text |-> <<>>]}

\* what the upstream call may do: answer, or fail with a gateway timeout, a
\* connection error, an HTTP status, an undecodable body
UpstreamFailures == {"timeout", "connect", "status", "other"}

UpstreamStatus == 500

\* lines 130-133 and 165-170: the HTTPException raised for an upstream
\* failure; an exception of another type is not caught
FailureStatus(e) ==
    CASE e = "timeout" -> 504
      [] e = "connect" -> 502
      [] e = "status" -> UpstreamStatus
      [] OTHER -> 0

ChatInit ==
    /\ RunAbsent
    /\ ParseIdle /\ CacheIdle /\ RunsIdle /\ RestIdle
    /\ chat \in [pc : {"received"}, req : ChatRequests, cfg : ChatConfigs,
                 status : {0}, via : {"none"}, content : {<<>>},
                 agent_ran : {FALSE}, deps_error : {""}, catalog : {<<>>}]

\* lines 90-163, up to the first await on the main server: validation, then
\* the streaming branch, or the agent branch (AgentDeps(...) and, if that
\* succeeded, run_agent), or the direct call
ChatHandle(listed, agent) ==
    /\ chat.pc = "received"
    /\ LET built == AgentDepsInit(ChatKwargs(chat.cfg))
       IN  chat' =
             IF ~MessagesValid(chat.req.messages)
             THEN [chat EXCEPT !.pc = "http_error", !.status = 400]
             ELSE IF chat.req.stream
             THEN [chat EXCEPT !.pc = "streaming"]
             ELSE IF ~AgentMode(chat)
             THEN [chat EXCEPT !.pc = "direct"]
             ELSE IF ~built.ok
             THEN [chat EXCEPT !.pc = "direct", !.deps_error = built.err]
             ELSE IF agent.ok
             THEN [chat EXCEPT !.pc = "responded", !.status = 200,
                               !.via = "agent", !.content = agent.text,
                               !.agent_ran = TRUE,
                               !.catalog = CompactTools(listed)]
             ELSE [chat EXCEPT !.pc = "direct", !.agent_ran = TRUE,
                               !.catalog = CompactTools(listed)]
    /\ UNCHANGED <<run_vars, rest, parse, mcp_tools_cache, clock, pending, served, fetches, runs>>

\* lines 115-129: the upstream stream opens with status 200
ChatStreamOpens ==
    /\ chat.pc = "streaming"
    /\ chat' = [chat EXCEPT !.pc = "responded", !.status = 200, !.via = "stream"]
    /\ UNCHANGED <<run_vars, rest, parse, mcp_tools_cache, clock, pending, served, fetches, runs>>

\* lines 116-118 and 130-133
ChatStreamFails(e) ==
    /\ chat.pc = "streaming"
    /\ chat' = IF e = "other"
               THEN [chat EXCEPT !.pc = "raised"]
               ELSE [chat EXCEPT !.pc = "http_error", !.status = FailureStatus(e)]
    /\ UNCHANGED <<run_vars, rest, parse, mcp_tools_cache, clock, pending, served, fetches, runs>>

\* lines 163-164
ChatDirectReturns ==
    /\ chat.pc = "direct"
    /\ chat' = [chat EXCEPT !.pc = "responded", !.status = 200,
                            !.via = "direct", !.content = U_text]
    /\ UNCHANGED <<run_vars, rest, parse, mcp_tools_cache, clock, pending, served, fetches, runs>>

\* lines 165-170
ChatDirectFails(e) ==
    /\ chat.pc = "direct"
    /\ chat' = IF e = "other"
               THEN [chat EXCEPT !.pc = "raised"]
               ELSE [chat EXCEPT !.pc = "http_error", !.status = FailureStatus(e)]
    /\ UNCHANGED <<run_vars, rest, parse, mcp_tools_cache, clock, pending, served, fetches, runs>>

ChatNext ==
    \/ \E listed \in RawToolLists, agent \in AgentOutcomes : ChatHandle(listed, agent)
    \/ ChatStreamOpens
    \/ \E e \in UpstreamFailures : ChatStreamFails(e)
    \/ ChatDirectReturns
    \/ \E e \in UpstreamFailures : ChatDirectFails(e)

ChatSpec == ChatInit /\ [][ChatNext]_vars

\* C27: a non-streaming request with use_tools true, with langchain.enabled
\* true, is answered by the agent: the response content is the text
\* run_agent returned, and the direct upstream call is made only after the
\* agent raised.
C27_AgentAnswersToolRequests ==
    (MessagesValid(chat.req.messages) /\ AgentMode(chat))
    => /\ chat.pc = "responded" => chat.via = "agent"
       /\ chat.pc = "direct" => (chat.agent_ran /\ chat.deps_error = "")

\* C24: a request answered in agent mode with max_tools configured positive
\* is answered by a run whose catalog is the first max_tools named tools.
C24_CatalogCutToMaxTools ==
    LET k == ConfigInt(chat.cfg.max_tools, DefaultMaxTools)
    IN  (/\ MessagesValid(chat.req.messages) /\ AgentMode(chat)
         /\ k > 0
         /\ chat.pc \in {"responded", "direct"})
        => /\ chat.agent_ran
           /\ Len(chat.catalog) <= k

(***************************************************************************)
(* Two run_agent calls in one event loop, as two requests make them.  Each *)
(* call runs from one await to the next (get_mcp_tools, llm.ainvoke,       *)
(* call_mcp_tool) and the loop may resume either call at each step.        *)
(*   runs   the two calls: the keyword arguments the AgentDeps was built   *)
(*          from, the locals of run_agent (deps, tools), the AgentState    *)
(*          dict of its graph, its result, and log, the responses its      *)
(*          collaborators gave it, in order                                *)
(***************************************************************************)

Runs == 1..2

\* the keyword arguments a caller may construct AgentDeps with
PairKwargs ==
    [names : {AgentDepsParams, AgentDepsParams \cup {"max_tools"}},
     max_steps : (0 - 1)..MaxSteps,
     use_tools : {TRUE},
     max_tools : {1}]

NewRun(kwargs) ==
    [pc |-> "new", kwargs |-> kwargs, deps |-> NoDeps, tools |-> <<>>,
     state |-> InitState, result |-> <<>>, log |-> <<>>]

\* AgentDeps(**kwargs), then run_agent up to its first await (lines 140-148,
\* 233); the conversation is MsgsQuestion
Constructed(kwargs) ==
    LET built == AgentDepsInit(kwargs)
    IN  IF built.ok
        THEN [NewRun(kwargs) EXCEPT
                 !.deps = built.deps,
                 !.pc = IF built.deps.use_tools THEN "await_tools" ELSE "await_llm"]
        ELSE [NewRun(kwargs) EXCEPT !.pc = "rejected"]

\* what a collaborator may answer at each await
PairResponses ==
    [kind : {"listing"}, ok : {TRUE}, v : {<<RawCalcAdd, RawNameless, RawEcho>>}]
    \cup [kind : {"listing", "llm", "tool"}, ok : {FALSE}, v : Errors]
    \cup [kind : {"llm"}, ok : {TRUE}, v : {T_final, T_tool_add}]
    \cup [kind : {"tool"}, ok : {TRUE},
          v : {r \in ToolResults : Truthy(Get(r, <<"s","u","c","c","e","s","s">>))}]

Awaited(where) ==
    CASE where = "await_tools" -> "listing"
      [] where = "await_llm" -> "llm"
      [] where = "await_tool" -> "tool"
      [] OTHER -> "none"

\* the run r resumed with resp: the response joins its log
Logged(r, resp) == [r EXCEPT !.log = Append(r.log, resp)]

\* the edge out of plan for the run r whose plan_node left the state st: to
\* act, suspended at call_mcp_tool, or to END and the return of run_agent
AfterPlanOf(r, st) ==
    IF Route(st, r.deps.max_steps) = "act"
    THEN [run |-> [r EXCEPT !.pc = "await_tool"], state |-> st]
    ELSE [run |-> [r EXCEPT !.pc = "done", !.result = FinalAnswer(st)],
          state |-> st]

\* the run r, working on the AgentState st, is resumed with the response
\* resp and runs to its next await or to its return: [run, state]
Resume(r, st, resp) ==
    CASE r.pc = "await_tools" ->
           [run |-> [Logged(r, resp) EXCEPT
                        !.tools = IF resp.ok THEN CompactTools(resp.v)
                                  ELSE OnToolListError,
                        !.pc = "await_llm"],
            state |-> st]
      [] r.pc = "await_llm" ->
           AfterPlanOf(Logged(r, resp),
                       IF resp.ok
                       THEN PlanOnText(st, Strip(resp.v), ToolNames(r.tools))
                       ELSE PlanOnLlmError(st, resp.v))
      [] r.pc = "await_tool" ->
           IF resp.ok
           THEN [run |-> [Logged(r, resp) EXCEPT !.pc = "await_llm"],
                 state |-> BumpSteps(ActOnResult(st, resp.v))]
           ELSE [run |-> [Logged(r, resp) EXCEPT
                             !.pc = OnGraphError(resp.v).pc,
                             !.result = OnGraphError(resp.v).result],
                 state |-> st]

\* the locals of call i and the AgentState of call o after a step
Stored(rs, i, o, out) ==
    [[rs EXCEPT ![i] = out.run] EXCEPT ![o].state = out.state]

StateOwnerShared(i) == 1

\* line 233: init is a dict created inside each run_agent call, and the
\* graph of that call is the only code holding it
StateOwner(i) == i

PairInit ==
    /\ RunAbsent
    /\ ParseIdle /\ CacheIdle /\ ChatIdle /\ RestIdle
    /\ runs \in [Runs -> {NewRun(k) : k \in PairKwargs}]

\* a request constructs its AgentDeps and calls run_agent
PairConstruct(i) ==
    /\ runs[i].pc = "new"
    /\ runs' = [runs EXCEPT ![i] = Constructed(runs[i].kwargs)]
    /\ UNCHANGED <<run_vars, rest, parse, mcp_tools_cache, clock, pending, served, fetches, chat>>

\* the event loop resumes call i with the response of its collaborator
PairResume(i, resp) ==
    /\ resp.kind = Awaited(runs[i].pc)
    /\ runs' = Stored(runs, i, StateOwner(i),
                      Resume(runs[i], runs[StateOwner(i)].state, resp))
    /\ UNCHANGED <<run_vars, rest, parse, mcp_tools_cache, clock, pending, served, fetches, chat>>

PairNext ==
    \/ \E i \in Runs : PairConstruct(i)
    \/ \E i \in Runs, resp \in PairResponses : PairResume(i, resp)

PairSpec == PairInit /\ [][PairNext]_vars

\* the same call run alone: Resume folded over the responses from position k
RECURSIVE ReplayFrom(_, _, _)
ReplayFrom(r, log, k) ==
    IF k > Len(log) THEN r
    ELSE ReplayFrom(Stored(<<r>>, 1, 1, Resume(r, r.state, log[k]))[1], log, k + 1)

Alone(r) == ReplayFrom(Constructed(r.kwargs), r.log, 1)

\* C22: whatever the interleaving, each of two concurrent runs has the
\* scratchpad, steps, decision and returned answer it has when it runs alone
\* with the same collaborator responses.
C22_RunsIndependent ==
    \A i \in Runs :
        runs[i].pc # "new"
        => LET alone == Alone(runs[i])
           IN  /\ runs[i].state = alone.state
               /\ runs[i].result = alone.result
               /\ runs[i].pc = alone.pc
               /\ runs[i].tools = alone.tools

\* both runs were under way together and differ: run 1 returned its final
\* answer after one tool call, run 2 is suspended at its second tool call
C22_TwoRunsInterleaved ==
    /\ runs[1].pc = "done" /\ runs[1].state.steps = 1
    /\ runs[1].state.decision.kind = "final"
    /\ runs[2].pc = "await_tool" /\ runs[2].state.steps = 1
    /\ runs[2].state.decision.kind = "tool"

LlmAsked(r) == Cardinality({k \in 1..Len(r.log) : r.log[k].kind = "llm"})

\* C25 as stated: a configuration with max_steps < 1 is rejected when it is
\* constructed, so no run executes with max_steps < 1.
C25_NoRunBelowOneStep ==
    \A i \in Runs :
        /\ (runs[i].pc # "new" /\ runs[i].kwargs.max_steps < 1)
           => runs[i].pc = "rejected"
        /\ runs[i].pc \notin {"new", "rejected"} => runs[i].deps.max_steps >= 1

\* C25, amended: the configuration is stored as given and never changed:
\* the only construction that fails is one that passes max_tools, a
\* max_steps below 1 is accepted, and a run with such a value asks the model
\* once and calls no tool.
C25_ConfigStoredAsGiven ==
    \A i \in Runs :
        runs[i].pc # "new"
        => /\ runs[i].pc = "rejected" <=> "max_tools" \in runs[i].kwargs.names
           /\ runs[i].pc # "rejected"
              => /\ runs[i].deps.max_steps = runs[i].kwargs.max_steps
                 /\ runs[i].deps.use_tools = runs[i].kwargs.use_tools
                 /\ runs[i].deps.max_steps < 1
                    => /\ runs[i].pc # "await_tool"
                       /\ runs[i].state.steps = 0
                       /\ runs[i].state.scratchpad = <<>>
                       /\ LlmAsked(runs[i]) <= 1

\* a run with max_steps 0 returned the step-limit message for a tool decision
C25_ZeroStepRunReturned ==
    \E i \in Runs :
        /\ runs[i].deps.max_steps = 0
        /\ runs[i].pc = "done"
        /\ runs[i].state.decision.kind = "tool"
        /\ runs[i].result = <<MsgStepLimit>>

(***************************************************************************)
(* langchain_service.py: call_mcp_tool over call_main_server_json          *)
(***************************************************************************)

K_success == <<"s","u","c","c","e","s","s">>

K_error == <<"e","r","r","o","r">>

K_arguments == <<"a","r","g","u","m","e","n","t","s">>

\* the first part of the error_msg of line 71
MsgCallTimeout == "The call timed out: "

\* the error_msg of line 75
MsgCannotConnect == "Cannot connect to the main server"

\* the first part of the error_msg of line 83
MsgCallFailed == "The call failed: "

\* the first part of the message of the ValueError of main_server_client.py line 138
MsgNotJson == "The main server's response is not valid JSON: "

\* e.response.text[:200]
ErrorTextCap == 200

\* s[:n]
Slice(s, n) == IF Len(s) <= n THEN s ELSE SubSeq(s, 1, n)

\* the arguments the tool is called with
ToolArguments == {EmptyDict, JObj(<<<<"a">>>>, <<JNum(2)>>)}

\* the tool names it is called with
CalledNames == {N_calc_add, N_echo, N_unknown}

\* the status codes of the main server's responses
ResponseStatuses == {200, 404, 500}

\* a response body longer than the error message keeps
LongBody == [i \in 1..(ErrorTextCap + 1) |-> "x"]

\* the bodies of the main server's responses
ResponseBodies ==
    {Obj2(Member(K_success, <<"t","r","u","e">>), Member(<<"d","a","t","a">>, <<"4">>)),
     Obj2(Member(K_success, <<"f","a","l","s","e">>), Member(K_error, Q(<<"n","o">>))),
     T_array, T_prose, <<>>, LongBody}

\* what client.request may raise instead of answering
RequestFailures == {"timeout", "connect", "other"}

\* str(e) of an exception of client.request that is neither a timeout nor a
\* connection error
OtherFailureText == <<"b","o","o","m">>

\* response.raise_for_status(): an error status raises HTTPStatusError
RaisesForStatus(status) == status >= 400

\* call_main_server_json after the response arrived: the parsed body, or the
\* exception raised
JsonOf(status, body) ==
    IF RaisesForStatus(status)
    THEN [raised |-> "status", status |-> status, text |-> body, v |-> JNull]
    ELSE IF Loads(body).ok
         THEN [raised |-> "none", status |-> status, text |-> <<>>, v |-> Loads(body).v]
         ELSE [raised |-> "other", status |-> status, text |-> <<MsgNotJson>>, v |-> JNull]

\* the dict of lines 73, 77, 81 and 85
FailureResult(error_msg) == JObj(<<K_success, K_error>>, <<JBool(FALSE), JStr(error_msg)>>)

\* call_mcp_tool without its last except clause: an exception that is no
\* httpx error leaves the call
ExceptClausesHttpOnly(tool_name, e) ==
    CASE e.raised = "timeout" -> [pc |-> "done", result |-> FailureResult(<<MsgCallTimeout>> \o tool_name)]
      [] e.raised = "connect" -> [pc |-> "done", result |-> FailureResult(<<MsgCannotConnect>>)]
      [] e.raised = "status"  ->
            [pc |-> "done",
             result |-> FailureResult(<<"H","T","T","P"," ">> \o IntToChars(e.status)
                                      \o <<":"," ">> \o Slice(e.text, ErrorTextCap))]
      [] OTHER -> [pc |-> "raised", result |-> JNull]

\* the except clauses of call_mcp_tool, lines 70-85: what the call does with
\* exception e of call_main_server_json
ExceptClauses(tool_name, e) ==
    CASE e.raised = "timeout" -> [pc |-> "done", result |-> FailureResult(<<MsgCallTimeout>> \o tool_name)]
      [] e.raised = "connect" -> [pc |-> "done", result |-> FailureResult(<<MsgCannotConnect>>)]
      [] e.raised = "status"  ->
            [pc |-> "done",
             result |-> FailureResult(<<"H","T","T","P"," ">> \o IntToChars(e.status)
                                      \o <<":"," ">> \o Slice(e.text, ErrorTextCap))]
      [] OTHER -> [pc |-> "done", result |-> FailureResult(<<MsgCallFailed>> \o e.text)]

\* the exception client.request raised, as call_main_server re-raises it
RequestError(kind) ==
    [raised |-> kind, status |-> 0,
     text |-> IF kind = "other" THEN OtherFailureText ELSE <<>>, v |-> JNull]

\* call_mcp_tool once call_main_server_json has returned or raised
CallMcpToolEnds(tool_name, r) ==
    IF r.raised = "none" THEN [pc |-> "done", result |-> r.v] ELSE ExceptClauses(tool_name, r)

ToolCallInit ==
    /\ RunAbsent
    /\ ParseIdle /\ CacheIdle /\ ChatIdle /\ RunsIdle
    /\ EmbedIdle /\ LoaderIdle /\ EnvIdle /\ ConfIdle
    /\ \E n \in CalledNames, a \in ToolArguments :
          toolcall = [pc |-> "called", tool_name |-> n, arguments |-> a,
                      json_data |-> JNull, failure |-> "none", status |-> 0,
                      result |-> JNull]

\* lines 62-68: the request is built and sent, the call waits for the answer
ToolCallRequest ==
    /\ toolcall.pc = "called"
    /\ toolcall' = [toolcall EXCEPT
                      !.pc = "awaiting",
                      !.json_data = JObj(<<K_name, K_arguments>>,
                                         <<JStr(toolcall.tool_name), toolcall.arguments>>)]
    /\ UNCHANGED <<run_vars, parse, mcp_tools_cache, clock, pending, served, fetches,
                   chat, runs, embed, loader, env, conf>>

\* client.request raised
ToolCallRequestRaises(kind) ==
    /\ toolcall.pc = "awaiting"
    /\ toolcall' = [toolcall EXCEPT
                      !.pc = CallMcpToolEnds(toolcall.tool_name, RequestError(kind)).pc,
                      !.result = CallMcpToolEnds(toolcall.tool_name, RequestError(kind)).result,
                      !.failure = kind]
    /\ UNCHANGED <<run_vars, parse, mcp_tools_cache, clock, pending, served, fetches,
                   chat, runs, embed, loader, env, conf>>

\* the main server answered
ToolCallResponds(status, body) ==
    /\ toolcall.pc = "awaiting"
    /\ toolcall' = [toolcall EXCEPT
                      !.pc = CallMcpToolEnds(toolcall.tool_name, JsonOf(status, body)).pc,
                      !.result = CallMcpToolEnds(toolcall.tool_name, JsonOf(status, body)).result,
                      !.status = status,
                      !.failure = IF status >= 400 THEN "status"
                                  ELSE IF ~Loads(body).ok THEN "not_json" ELSE "none"]
    /\ UNCHANGED <<run_vars, parse, mcp_tools_cache, clock, pending, served, fetches,
                   chat, runs, embed, loader, env, conf>>

ToolCallNext ==
    \/ ToolCallRequest
    \/ \E kind \in RequestFailures : ToolCallRequestRaises(kind)
    \/ \E status \in ResponseStatuses, body \in ResponseBodies : ToolCallResponds(status, body)

ToolCallSpec == ToolCallInit /\ [][ToolCallNext]_vars

\* C32: call_mcp_tool never raises: when the upstream call fails (timeout,
\* connection error, error status, a body that is no JSON, any other
\* exception) it returns a dict with success false and an error string.
C32_CallMcpToolNeverRaises ==
    /\ toolcall.pc # "raised"
    /\ toolcall.pc = "done" /\ toolcall.failure # "none"
       => /\ IsDict(toolcall.result)
          /\ Get(toolcall.result, K_success) = JBool(FALSE)
          /\ Get(toolcall.result, K_error).ty = "str"
          /\ Len(Get(toolcall.result, K_error).s) >= 1

\* a response with status 200 whose body is no JSON was returned as a failure
C32_NonJsonBodyReturned ==
    /\ toolcall.pc = "done"
    /\ toolcall.failure = "not_json"
    /\ toolcall.result = FailureResult(<<MsgCallFailed, MsgNotJson>>)

(***************************************************************************)
(* vector_service.py: embed_texts and the embedding cache                  *)
(***************************************************************************)

\* self._cache_ttl, in seconds
VectorCacheTtl == 300

\* the clock of the vector service stops here
MaxEmbedElapsed == 300

\* the number of embed_texts calls made
MaxEmbedCalls == 2

\* the texts passed to embed_texts
EmbedTexts == {"a", "b"}

\* the lists of texts passed to embed_texts
TextLists == {<<>>, <<"a">>, <<"a", "b">>, <<"b", "a">>}

\* the row the model's encode gives for a text
EncodedRow(text) == IF text = "a" THEN <<1, 0>> ELSE <<0, 1>>

\* what encode returns: rows that are numpy arrays, as SentenceTransformer
\* gives them with convert_to_numpy=True, or rows of another sequence type
\* that can be hashed, the case the else branch of _convert_to_list is for
RowKinds == {"ndarray", "hashable"}

NoEntry == [present |-> FALSE, embedding |-> <<>>, ts |-> 0]

\* the cache key holds hash(text) and the model name; two texts with the
\* same hash are not modelled, so the key is the text
EmptyEmbeddingCache == [t \in EmbedTexts |-> NoEntry]

EmbeddingResult(text, embedding) ==
    [text |-> text, embedding |-> embedding, dimension |-> Len(embedding)]

\* _get_from_cache: the cached embedding if there is one that is younger
\* than the ttl; an entry found expired is deleted
GetFromCache(cache, enabled, text, now) ==
    IF ~enabled \/ ~cache[text].present
    THEN [hit |-> FALSE, embedding |-> <<>>, cache |-> cache]
    ELSE IF now - cache[text].ts < VectorCacheTtl
         THEN [hit |-> TRUE, embedding |-> cache[text].embedding, cache |-> cache]
         ELSE [hit |-> FALSE, embedding |-> <<>>,
               cache |-> [cache EXCEPT ![text] = NoEntry]]

\* _set_cache: the entry is stored with the time, then every expired entry
\* is deleted
SetCache(cache, enabled, text, embedding, now) ==
    IF ~enabled THEN cache
    ELSE LET stored == [cache EXCEPT ![text] =
                          [present |-> TRUE, embedding |-> embedding, ts |-> now]]
         IN  [t \in EmbedTexts |->
                IF stored[t].present /\ now - stored[t].ts >= VectorCacheTtl
                THEN NoEntry ELSE stored[t]]

\* lines 258-270: the loop over the texts; hits go to results, the other
\* texts to texts_to_encode
RECURSIVE CacheLoop(_, _, _, _, _, _)
CacheLoop(texts, cache, enabled, now, results, texts_to_encode) ==
    IF texts = <<>>
    THEN [results |-> results, texts_to_encode |-> texts_to_encode, cache |-> cache]
    ELSE LET got == GetFromCache(cache, enabled, Head(texts), now)
         IN  IF got.hit
             THEN CacheLoop(Tail(texts), got.cache, enabled, now,
                            Append(results, EmbeddingResult(Head(texts), got.embedding)),
                            texts_to_encode)
             ELSE CacheLoop(Tail(texts), got.cache, enabled, now, results,
                            Append(texts_to_encode, Head(texts)))

\* lines 255-270: results and texts_to_encode before the encoding; without
\* use_cache the loop is skipped and both stay empty
BeforeEncode(texts, use_cache, cache, enabled, now) ==
    IF use_cache
    THEN CacheLoop(texts, cache, enabled, now, <<>>, <<>>)
    ELSE [results |-> <<>>, texts_to_encode |-> <<>>, cache |-> cache]

\* _convert_to_list under lru_cache: the arguments are hashed first, and a
\* numpy array cannot be hashed
ConvertRaises(row_kind) == row_kind = "ndarray"

\* lines 284-295: the loop over the encoded texts; each result is appended
\* to results and stored in the cache
RECURSIVE EncodedLoop(_, _, _, _, _, _)
EncodedLoop(texts_to_encode, results, cache, enabled, use_cache, now) ==
    IF texts_to_encode = <<>>
    THEN [results |-> results, cache |-> cache]
    ELSE EncodedLoop(Tail(texts_to_encode),
                     Append(results, EmbeddingResult(Head(texts_to_encode),
                                                     EncodedRow(Head(texts_to_encode)))),
                     IF use_cache
                     THEN SetCache(cache, enabled, Head(texts_to_encode),
                                   EncodedRow(Head(texts_to_encode)), now)
                     ELSE cache,
                     enabled, use_cache, now)

\* load_embedding_model as embed_texts sees it: True at once when the model
\* is there, and otherwise the call ends with an exception (see C36)
LoadReturnsTrue(model_loaded) == model_loaded

NoEmbedCall ==
    [pc |-> "idle", texts |-> <<>>, use_cache |-> TRUE, texts_to_encode |-> <<>>,
     results |-> <<>>, encode |-> "none", status |-> 0]

EmbedInit ==
    /\ RunAbsent
    /\ ParseIdle /\ CacheIdle /\ ChatIdle /\ RunsIdle
    /\ ToolCallIdle /\ LoaderIdle /\ EnvIdle /\ ConfIdle
    /\ \E loaded \in BOOLEAN, enabled \in BOOLEAN :
          embed = [model_loaded |-> loaded, cache_enabled |-> enabled,
                   cache |-> EmptyEmbeddingCache, now |-> 0, made |-> 0,
                   call |-> NoEmbedCall]

\* what embed_texts(texts, use_cache) does up to its first await or its return
EmbedEnter(e, texts, use_cache, before) ==
    [e EXCEPT
       !.made = e.made + 1,
       !.cache = IF texts = <<>> \/ ~LoadReturnsTrue(e.model_loaded)
                 THEN e.cache ELSE before.cache,
       !.call = [pc |-> IF texts = <<>> THEN "returned"
                        ELSE IF ~LoadReturnsTrue(e.model_loaded) THEN "raised"
                        ELSE IF before.texts_to_encode = <<>> THEN "returned"
                        ELSE "encoding",
                 texts |-> texts,
                 use_cache |-> use_cache,
                 texts_to_encode |-> IF texts = <<>> \/ ~LoadReturnsTrue(e.model_loaded)
                                     THEN <<>> ELSE before.texts_to_encode,
                 results |-> IF texts = <<>> \/ ~LoadReturnsTrue(e.model_loaded)
                             THEN <<>> ELSE before.results,
                 encode |-> "none",
                 status |-> 0]]

\* embed_texts is called: lines 248-272
EmbedCall(texts, use_cache) ==
    /\ embed.call.pc \in {"idle", "returned", "raised"}
    /\ embed.made < MaxEmbedCalls
    /\ embed' = EmbedEnter(embed, texts, use_cache,
                           BeforeEncode(texts, use_cache, embed.cache,
                                        embed.cache_enabled, embed.now))
    /\ UNCHANGED <<run_vars, parse, mcp_tools_cache, clock, pending, served, fetches,
                   chat, runs, toolcall, loader, env, conf>>

\* what embed_texts does once encode has returned its rows: lines 284-302
EmbedAfterEncode(e, row_kind, after) ==
    IF ConvertRaises(row_kind)
    THEN [e EXCEPT !.call.pc = "raised", !.call.status = 500,
                   !.call.encode = row_kind, !.call.results = <<>>]
    ELSE [e EXCEPT !.call.pc = "returned", !.call.encode = row_kind,
                   !.call.results = after.results, !.cache = after.cache]

\* the executor's encode returned
EmbedEncodeReturns(row_kind) ==
    /\ embed.call.pc = "encoding"
    /\ embed' = EmbedAfterEncode(embed, row_kind,
                                 EncodedLoop(embed.call.texts_to_encode, embed.call.results,
                                             embed.cache, embed.cache_enabled,
                                             embed.call.use_cache, embed.now))
    /\ UNCHANGED <<run_vars, parse, mcp_tools_cache, clock, pending, served, fetches,
                   chat, runs, toolcall, loader, env, conf>>

\* the executor's encode raised: lines 297-300
EmbedEncodeRaises ==
    /\ embed.call.pc = "encoding"
    /\ embed' = [embed EXCEPT !.call.pc = "raised", !.call.status = 500,
                              !.call.encode = "raised", !.call.results = <<>>]
    /\ UNCHANGED <<run_vars, parse, mcp_tools_cache, clock, pending, served, fetches,
                   chat, runs, toolcall, loader, env, conf>>

\* time passes
EmbedTick ==
    /\ embed.now + VectorCacheTtl <= MaxEmbedElapsed
    /\ embed' = [embed EXCEPT !.now = embed.now + VectorCacheTtl]
    /\ UNCHANGED <<run_vars, parse, mcp_tools_cache, clock, pending, served, fetches,
                   chat, runs, toolcall, loader, env, conf>>

EmbedNext ==
    \/ \E texts \in TextLists, use_cache \in BOOLEAN : EmbedCall(texts, use_cache)
    \/ \E row_kind \in RowKinds : EmbedEncodeReturns(row_kind)
    \/ EmbedEncodeRaises
    \/ EmbedTick

EmbedSpec == EmbedInit /\ [][EmbedNext]_vars

C34_OneResultPerText ==
    /\ embed.model_loaded
    /\ embed.call.pc \in {"returned", "raised"}
    /\ embed.call.encode # "raised"
    => /\ embed.call.pc = "returned"
       /\ Len(embed.call.results) = Len(embed.call.texts)

(***************************************************************************)
(* vector_service.py: load_embedding_model                                 *)
(***************************************************************************)

\* the default of vector.load_retries
DefaultLoadRetries == 3

\* the values of vector.load_retries
LoadRetries == {0, 1, DefaultLoadRetries}

\* the values of vector.model: the default and a name with an organisation
ModelNames == {"paraphrase-multilingual-MiniLM-L12-v2", "org/model"}

\* the number of load_embedding_model calls made
MaxLoadCalls == 3

LoadCalls == 1..MaxLoadCalls

\* who calls load_embedding_model: _warmup_vector of main.py or embed_texts
LoadCallers == {"warmup", "embed_texts"}

\* l + r of Python: of the types that line 144 meets, only two strings can
\* be added
AddDefined(l, r) == l = "str" /\ r = "str"

\* lines 134-148, between the flag and the loop: `/` binds tighter than `+`,
\* so line 144 adds a str to the Path that cache_dir / "models--" gives, and
\* that raises TypeError for every model name
PreludeRaises(model_name) == ~AddDefined("Path", "str")

\* a faulty variant of OnExit: the flag is left as it is
OnExitKeepsFlag(l) == l

\* the finally clause of lines 212-213
OnExit(l) == [l EXCEPT !.model_loading = FALSE]

\* one load_embedding_model call from its entry to its return or exception;
\* with the lock free nothing in lines 120-148 suspends, and the loop of
\* lines 152-197 with its awaits is not reached
LoadRun(l) ==
    IF l.embedding_model # "none"
    THEN [l |-> l, outcome |-> "true", entered |-> FALSE]
    ELSE IF l.model_loading
         THEN [l |-> l, outcome |-> "false", entered |-> FALSE]
         ELSE IF PreludeRaises(l.model_name)
              THEN [l |-> OnExit([l EXCEPT !.model_loading = TRUE]),
                    outcome |-> "raised", entered |-> TRUE]
              \* not taken: what the lines after the loop, 209-210, leave
              ELSE [l |-> OnExit([l EXCEPT !.model_loading = TRUE,
                                           !.model_load_failed = TRUE]),
                    outcome |-> "false", entered |-> TRUE]

NoLoadCall == [pc |-> "new", caller |-> "warmup", outcome |-> "none",
               entered |-> FALSE, attempts |-> 0]

LoadInit ==
    /\ RunAbsent
    /\ ParseIdle /\ CacheIdle /\ ChatIdle /\ RunsIdle
    /\ ToolCallIdle /\ EmbedIdle /\ EnvIdle /\ ConfIdle
    /\ \E retries \in LoadRetries, name \in ModelNames,
          callers \in [LoadCalls -> LoadCallers] :
          loader = [embedding_model |-> "none", model_loading |-> FALSE,
                    model_load_failed |-> FALSE, max_retries |-> retries,
                    model_name |-> name,
                    calls |-> [i \in LoadCalls |->
                                 [NoLoadCall EXCEPT !.caller = callers[i]]]]

\* what call i leaves behind
LoadEnded(l, i, run) ==
    [run.l EXCEPT !.calls[i].pc = "ended",
                  !.calls[i].outcome = run.outcome,
                  !.calls[i].entered = run.entered]

\* call i of load_embedding_model, lines 118-213
LoadCall(i) ==
    /\ loader.calls[i].pc = "new"
    /\ loader' = LoadEnded(loader, i, LoadRun(loader))
    /\ UNCHANGED <<run_vars, parse, mcp_tools_cache, clock, pending, served, fetches,
                   chat, runs, toolcall, embed, env, conf>>

LoadNext == \E i \in LoadCalls : LoadCall(i)

LoadSpec == LoadInit /\ [][LoadNext]_vars

C36_FailedLoadReturnsFalse ==
    \A i \in LoadCalls :
        loader.calls[i].pc = "ended"
        => /\ loader.calls[i].attempts <= loader.max_retries
           /\ loader.embedding_model = "none"
              => /\ loader.calls[i].outcome = "false"
                 /\ loader.model_load_failed

(***************************************************************************)
(* main_server_client.py: call_main_server and the proxy variables         *)
(***************************************************************************)

\* the variables call_main_server removes from os.environ
ProxyVars == {"HTTP_PROXY", "HTTPS_PROXY", "http_proxy", "https_proxy"}

\* a proxy variable's value; "absent" stands for a variable that is not set
\* and for the None that os.environ.pop(name, None) gives for it
ProxyValues == {"absent", "", "http://proxy:7890"}

\* the number of call_main_server calls that may overlap
MaxEnvCalls == 2

EnvCalls == 1..MaxEnvCalls

\* `if old_http_proxy:` of lines 99-106
ProxyTruthy(old) == old # "absent" /\ old # ""

Unset == [v \in ProxyVars |-> "absent"]

\* the finally clause of lines 97-106: each variable whose old value is
\* truthy is set to it again
RestoreProxies(environ, old) ==
    [v \in ProxyVars |-> IF ProxyTruthy(old[v]) THEN old[v] ELSE environ[v]]

EnvInit ==
    /\ RunAbsent
    /\ ParseIdle /\ CacheIdle /\ ChatIdle /\ RunsIdle
    /\ ToolCallIdle /\ EmbedIdle /\ LoaderIdle /\ ConfIdle
    /\ \E values \in [ProxyVars -> ProxyValues] :
          env = [environ |-> values, before |-> values,
                 calls |-> [i \in EnvCalls |-> [pc |-> "new", old |-> Unset]]]

\* lines 82-96: the four variables are popped into the call's locals and the
\* request is sent
EnvCallStart(i) ==
    /\ env.calls[i].pc = "new"
    /\ env' = [env EXCEPT !.environ = Unset,
                          !.calls[i] = [pc |-> "in_flight", old |-> env.environ]]
    /\ UNCHANGED <<run_vars, parse, mcp_tools_cache, clock, pending, served, fetches,
                   chat, runs, toolcall, embed, loader, conf>>

\* client.request returned or raised: the finally clause runs
EnvCallEnd(i) ==
    /\ env.calls[i].pc = "in_flight"
    /\ env' = [env EXCEPT !.environ = RestoreProxies(env.environ, env.calls[i].old),
                          !.calls[i].pc = "done"]
    /\ UNCHANGED <<run_vars, parse, mcp_tools_cache, clock, pending, served, fetches,
                   chat, runs, toolcall, embed, loader, conf>>

EnvNext == \E i \in EnvCalls : EnvCallStart(i) \/ EnvCallEnd(i)

EnvSpec == EnvInit /\ [][EnvNext]_vars

\* C37: while a call_main_server request is in flight the four proxy
\* variables are unset, and once all calls have completed they hold the
\* values they had before, also when calls overlap.
C37_ProxyUnsetWhileInFlight ==
    /\ (\E i \in EnvCalls : env.calls[i].pc = "in_flight") => env.environ = Unset
    /\ (\A i \in EnvCalls : env.calls[i].pc = "done") => env.environ = env.before

(***************************************************************************)
(* config.py: Config.get and Config.set                                    *)
(***************************************************************************)

\* key.split("."): the pieces between the dots
RECURSIVE SplitDots(_, _)
SplitDots(s, piece) ==
    IF s = <<>> THEN <<piece>>
    ELSE IF Head(s) = "." THEN <<piece>> \o SplitDots(Tail(s), <<>>)
    ELSE SplitDots(Tail(s), Append(piece, Head(s)))

\* the keys passed to get and set
ConfKeys == {<<"a", ".", "b">>, <<"a", ".", "c">>, <<"n", ".", "b">>, <<"x">>}

\* the keys passed to set: one that is missing, one that leads through a number
SetKeys == {<<"a", ".", "c">>, <<"n", ".", "b">>}

\* the defaults passed to get
ConfDefaults == {JNum(0), JNum(7)}

\* the values passed to set
ConfValues == {JNum(2)}

\* the loaded configuration: {"a": {"b": 1}, "n": 5}
LoadedConfig ==
    JObj(<<<<"a">>, <<"n">>>>, <<JObj(<<<<"b">>>>, <<JNum(1)>>), JNum(5)>>)

NotCached == [present |-> FALSE, value |-> JNull]

\* self._cache after load() or set(): nothing is cached
ClearedCache == [k \in ConfKeys |-> NotCached]

\* lines 177-185: the walk along the pieces of the key; it stops at the
\* first piece that the value reached, if it is a dict, does not hold
RECURSIVE Walk(_, _)
Walk(value, keys) ==
    IF keys = <<>> THEN [found |-> TRUE, value |-> value]
    ELSE IF IsDict(value) /\ HasKey(value, Head(keys))
         THEN Walk(Get(value, Head(keys)), Tail(keys))
         ELSE [found |-> FALSE, value |-> JNull]

\* what get(key, default) finds in the configuration itself
Lookup(config, key, default) ==
    IF Walk(config, SplitDots(key, <<>>)).found
    THEN Walk(config, SplitDots(key, <<>>)).value
    ELSE default

\* Config.get, lines 174-188: a cached key is answered from the cache; what
\* is found or, for a missing key, the default, is cached and returned
ConfigGet(config, cache, key, default) ==
    IF cache[key].present
    THEN [returned |-> cache[key].value, cache |-> cache]
    ELSE [returned |-> Lookup(config, key, default),
          cache |-> [cache EXCEPT ![key] =
                       [present |-> TRUE, value |-> Lookup(config, key, default)]]]

\* lines 201-206 fail when the walk meets a value that is no dict
RECURSIVE SetFails(_, _)
SetFails(config, keys) ==
    IF ~IsDict(config) THEN TRUE
    ELSE IF Len(keys) = 1 THEN FALSE
    ELSE IF HasKey(config, Head(keys))
         THEN SetFails(Get(config, Head(keys)), Tail(keys))
         ELSE FALSE

\* lines 198-206: the dicts along the key are created where missing and the
\* last piece is assigned
RECURSIVE SetPath(_, _, _)
SetPath(config, keys, value) ==
    IF Len(keys) = 1 THEN DictSet(config, Head(keys), value)
    ELSE DictSet(config, Head(keys),
                 SetPath(IF HasKey(config, Head(keys))
                         THEN Get(config, Head(keys)) ELSE EmptyDict,
                         Tail(keys), value))

NoGet == [op |-> "none", key |-> <<>>, default |-> JNull, returned |-> JNull,
          expected |-> JNull, cached |-> FALSE]

ConfInit ==
    /\ RunAbsent
    /\ ParseIdle /\ CacheIdle /\ ChatIdle /\ RunsIdle
    /\ ToolCallIdle /\ EmbedIdle /\ LoaderIdle /\ EnvIdle
    /\ conf = [config |-> LoadedConfig, cache |-> ClearedCache, last |-> NoGet]

\* config.get(key, default)
ConfGet(key, default) ==
    /\ conf' = [conf EXCEPT
                  !.cache = ConfigGet(conf.config, conf.cache, key, default).cache,
                  !.last = [op |-> "get", key |-> key, default |-> default,
                            returned |-> ConfigGet(conf.config, conf.cache, key, default).returned,
                            expected |-> Lookup(conf.config, key, default),
                            cached |-> conf.cache[key].present]]
    /\ UNCHANGED <<run_vars, parse, mcp_tools_cache, clock, pending, served, fetches,
                   chat, runs, toolcall, embed, loader, env>>

\* config.set(key, value): the cache is cleared after the assignment
ConfSet(key, value) ==
    /\ ~SetFails(conf.config, SplitDots(key, <<>>))
    /\ conf' = [conf EXCEPT
                  !.config = SetPath(conf.config, SplitDots(key, <<>>), value),
                  !.cache = ClearedCache,
                  !.last = [NoGet EXCEPT !.op = "set", !.key = key]]
    /\ UNCHANGED <<run_vars, parse, mcp_tools_cache, clock, pending, served, fetches,
                   chat, runs, toolcall, embed, loader, env>>

\* config.set(key, value) raises TypeError: nothing is assigned and the
\* cache is not cleared
ConfSetRaises(key, value) ==
    /\ SetFails(conf.config, SplitDots(key, <<>>))
    /\ conf' = [conf EXCEPT !.last = [NoGet EXCEPT !.op = "set_raised", !.key = key]]
    /\ UNCHANGED <<run_vars, parse, mcp_tools_cache, clock, pending, served, fetches,
                   chat, runs, toolcall, embed, loader, env>>

ConfNext ==
    \/ \E key \in ConfKeys, default \in ConfDefaults : ConfGet(key, default)
    \/ \E key \in SetKeys, value \in ConfValues : ConfSet(key, value)
    \/ \E key \in SetKeys, value \in ConfValues : ConfSetRaises(key, value)

ConfSpec == ConfInit /\ [][ConfNext]_vars

\* C38: get(key, default) returns the configured value when the dotted key
\* exists and otherwise the default passed to that call, after any earlier
\* gets and sets.
C38_GetReturnsValueOrDefault ==
    conf.last.op = "get" => conf.last.returned = conf.last.expected


====
